---------------------------- MODULE Spec2Model ----------------------------
(***************************************************************************)
(* A model of the tool-augmented response orchestration of mcp-agents-go:  *)
(* MCPAgent.ExecuteTool, the blocking MCPAgent.GenerateContent and the     *)
(* streaming MCPAgent.GenerateContentAsStreaming with its fragment         *)
(* classifier, over an agent built by NewMCPAgent.                         *)
(*                                                                         *)
(* Text is modelled by TLA+ strings (Len, SubSeq and \o act on them as on  *)
(* Go strings), so names are split, JSON is parsed and markers are         *)
(* formatted as the code does it.                                          *)
(***************************************************************************)
EXTENDS Integers, Sequences, FiniteSets, Bags, TLC

(***************************************************************************)
(* Bounds of the model.                                                    *)
(***************************************************************************)
\* the most tool calls one LLM response carries
MaxCalls == 2
\* the most fragments the LLM streams over the two LLM calls of one turn
MaxChunks == 2
\* the most fragments fed to the first streaming callback by the classifier harness
MaxClassified == 2

(***************************************************************************)
(* Strings.                                                                *)
(***************************************************************************)
\* s[i], 1-based, "" outside the string
CharAt(s, i) == IF i >= 1 /\ i <= Len(s) THEN SubSeq(s, i, i) ELSE ""

\* Go's s[lo:hi] (0-based, hi exclusive) for 0 <= lo <= hi <= len(s)
Slice(s, lo, hi) == SubSeq(s, lo + 1, hi)

RECURSIVE IndexFrom(_, _, _)
IndexFrom(s, sep, i) ==
    IF i + Len(sep) > Len(s) THEN -1
    ELSE IF SubSeq(s, i + 1, i + Len(sep)) = sep THEN i
    ELSE IndexFrom(s, sep, i + 1)

\* strings.Index: the 0-based index of the first occurrence of sep in s, or -1
Index(s, sep) == IndexFrom(s, sep, 0)

(***************************************************************************)
(* encoding/json, as far as json.Unmarshal is used: a recursive-descent    *)
(* reading of one JSON text into a value                                   *)
(*   [t |-> "null" | "bool" | "num"], [t |-> "str", s |-> _],              *)
(*   [t |-> "arr", items |-> <<...>>], [t |-> "obj", fields |-> <<[k,v]>>] *)
(* (strings without escapes, integers only).                               *)
(***************************************************************************)
Whitespace == {" ", "\t", "\n", "\r"}
Digits == {"0", "1", "2", "3", "4", "5", "6", "7", "8", "9"}

JFail == [ok |-> FALSE, v |-> [t |-> "null"], i |-> 0]
JOk(v, i) == [ok |-> TRUE, v |-> v, i |-> i]

RECURSIVE SkipWS(_, _)
SkipWS(s, i) == IF CharAt(s, i) \in Whitespace THEN SkipWS(s, i + 1) ELSE i

RECURSIVE SkipDigits(_, _)
SkipDigits(s, i) == IF CharAt(s, i) \in Digits THEN SkipDigits(s, i + 1) ELSE i

RECURSIVE FindQuote(_, _)
\* the index of the next double quote at or after i, 0 if there is none
FindQuote(s, i) ==
    IF i > Len(s) THEN 0
    ELSE IF CharAt(s, i) = "\"" THEN i
    ELSE FindQuote(s, i + 1)

\* a string literal starting at the quote at i
ParseString(s, i) ==
    LET j == FindQuote(s, i + 1)
    IN  IF CharAt(s, i) = "\"" /\ j > 0
        THEN JOk([t |-> "str", s |-> SubSeq(s, i + 1, j - 1)], j + 1)
        ELSE JFail

ParseLiteral(s, i, word, v) ==
    IF i + Len(word) - 1 <= Len(s) /\ SubSeq(s, i, i + Len(word) - 1) = word
    THEN JOk(v, i + Len(word))
    ELSE JFail

ParseNumber(s, i) ==
    LET d == IF CharAt(s, i) = "-" THEN i + 1 ELSE i
        e == SkipDigits(s, d)
    IN  IF e > d THEN JOk([t |-> "num"], e) ELSE JFail

RECURSIVE ParseValue(_, _)
RECURSIVE ParseElements(_, _, _)
RECURSIVE ParseMembers(_, _, _)

\* the elements of an array after "[" or ",", up to and including "]"
ParseElements(s, i, acc) ==
    LET r == ParseValue(s, i)
        j == SkipWS(s, r.i)
    IN  IF ~r.ok THEN JFail
        ELSE IF CharAt(s, j) = "," THEN ParseElements(s, j + 1, Append(acc, r.v))
        ELSE IF CharAt(s, j) = "]"
             THEN JOk([t |-> "arr", items |-> Append(acc, r.v)], j + 1)
        ELSE JFail

\* the members of an object after "{" or ",", up to and including "}"
ParseMembers(s, i, acc) ==
    LET k == ParseString(s, SkipWS(s, i))
        c == SkipWS(s, k.i)
        r == ParseValue(s, c + 1)
        j == SkipWS(s, r.i)
    IN  IF ~k.ok \/ CharAt(s, c) # ":" THEN JFail
        ELSE IF ~r.ok THEN JFail
        ELSE IF CharAt(s, j) = ","
             THEN ParseMembers(s, j + 1, Append(acc, [k |-> k.v.s, v |-> r.v]))
        ELSE IF CharAt(s, j) = "}"
             THEN JOk([t |-> "obj", fields |-> Append(acc, [k |-> k.v.s, v |-> r.v])], j + 1)
        ELSE JFail

ParseValue(s, i0) ==
    LET i == SkipWS(s, i0)
        c == CharAt(s, i)
    IN  IF c = "{"
        THEN IF CharAt(s, SkipWS(s, i + 1)) = "}"
             THEN JOk([t |-> "obj", fields |-> <<>>], SkipWS(s, i + 1) + 1)
             ELSE ParseMembers(s, i + 1, <<>>)
        ELSE IF c = "["
        THEN IF CharAt(s, SkipWS(s, i + 1)) = "]"
             THEN JOk([t |-> "arr", items |-> <<>>], SkipWS(s, i + 1) + 1)
             ELSE ParseElements(s, i + 1, <<>>)
        ELSE IF c = "\"" THEN ParseString(s, i)
        ELSE IF c = "n" THEN ParseLiteral(s, i, "null", [t |-> "null"])
        ELSE IF c = "t" THEN ParseLiteral(s, i, "true", [t |-> "bool"])
        ELSE IF c = "f" THEN ParseLiteral(s, i, "false", [t |-> "bool"])
        ELSE ParseNumber(s, i)

\* the whole text is one JSON value, surrounded by optional white space
ParseJSON(s) ==
    LET r == ParseValue(s, 1)
    IN  IF r.ok /\ SkipWS(s, r.i) = Len(s) + 1 THEN r ELSE JFail

(***************************************************************************)
(* json.Unmarshal into the three Go types the code decodes into.  The text *)
(* is checked as a whole first (a syntax error), then a value that does    *)
(* not fit the target is a type error; JSON null leaves the target nil.    *)
(***************************************************************************)
\* json.Unmarshal(chunk, &toolCallArray) with toolCallArray []interface{}
UnmarshalSlice(text) ==
    LET r == ParseJSON(text)
    IN  IF ~r.ok THEN [err |-> TRUE, items |-> <<>>]
        ELSE IF r.v.t = "arr" THEN [err |-> FALSE, items |-> r.v.items]
        ELSE IF r.v.t = "null" THEN [err |-> FALSE, items |-> <<>>]
        ELSE [err |-> TRUE, items |-> <<>>]

\* json.Unmarshal(chunk, &chunkData) with chunkData map[string]interface{}
UnmarshalMap(text) ==
    LET r == ParseJSON(text)
    IN  IF ~r.ok THEN [err |-> TRUE, fields |-> <<>>]
        ELSE IF r.v.t = "obj" THEN [err |-> FALSE, fields |-> r.v.fields]
        ELSE IF r.v.t = "null" THEN [err |-> FALSE, fields |-> <<>>]
        ELSE [err |-> TRUE, fields |-> <<>>]

\* json.Unmarshal([]byte(argumentsInJSON), &temp) with temp any: fails on a syntax error only
UnmarshalAnyFails(text) == ~ParseJSON(text).ok

\* m[key] of a decoded object: the last member of that name wins; absent is [t |-> "absent"]
MapIndex(fields, key) ==
    LET hits == {i \in DOMAIN fields : fields[i].k = key}
    IN  IF hits = {} THEN [t |-> "absent"]
        ELSE fields[CHOOSE i \in hits : \A j \in hits : j <= i].v

\* v.([]interface{}) succeeded and len(v) > 0
NonEmptyList(v) == IF v.t = "arr" THEN Len(v.items) > 0 ELSE FALSE

(***************************************************************************)
(* The fragment classifier of the first streaming callback.                *)
(***************************************************************************)
\* the array test without its length check
IsToolCallArray_AnyArray(chunk) == ~UnmarshalSlice(chunk).err

\* the chunk is a tool call array
IsToolCallArray(chunk) ==
    LET a == UnmarshalSlice(chunk)
    IN  ~a.err /\ Len(a.items) > 0

\* the chunk is a regular response whose first choice has tool calls
HasToolCalls(chunk) ==
    LET m == UnmarshalMap(chunk)
        choices == MapIndex(m.fields, "choices")
        choice == choices.items[1]
    IN  IF m.err THEN FALSE
        ELSE IF ~NonEmptyList(choices) THEN FALSE
        ELSE IF choice.t # "obj" THEN FALSE
        ELSE NonEmptyList(MapIndex(choice.fields, "tool_calls"))

\* what the first LLM call's streaming callback sends on streamingChan for one chunk
FirstStreamingFunc(chunk) ==
    IF IsToolCallArray(chunk) THEN <<>>
    ELSE IF HasToolCalls(chunk) THEN <<>>
    ELSE <<chunk>>

\* what the final LLM call's streaming callback sends on streamingChan for one chunk
FinalStreamingFunc(chunk) == <<chunk>>

(***************************************************************************)
(* The agent: NewMCPAgent builds mcpServers (the providers ExecuteTool can *)
(* route to) and MCPServerTools (the tool catalog).                        *)
(***************************************************************************)
\* slices.Find on a list of records with a Name: the first index with that Name, 0 if none
FindByName(list, name) ==
    LET hits == {i \in DOMAIN list : list[i].Name = name}
    IN  IF hits = {} THEN 0 ELSE CHOOSE i \in hits : \A j \in hits : i <= j

\* slices.Contains
Contains(list, x) == \E i \in DOMAIN list : list[i] = x

\* a filter that ignores the allow-list
Filter_All(tools, allowed) == tools

RECURSIVE Filter(_, _)
\* slices.Filter(toolsRes.Tools, ...): the tools the allow-list admits, in order
Filter(tools, allowed) ==
    IF tools = <<>> THEN <<>>
    ELSE (IF Len(allowed) = 0 \/ Contains(allowed, Head(tools))
          THEN <<Head(tools)>> ELSE <<>>) \o Filter(Tail(tools), allowed)

\* an iteration in which a failed tool listing empties the agent built so far
AddServer_FailureResets(ag, srv, servers) ==
    LET k == FindByName(servers, srv.Name)
        old == IF srv.Name \in DOMAIN ag.MCPServerTools
               THEN ag.MCPServerTools[srv.Name] ELSE <<>>
        keep == old \o Filter(servers[k].Tools, srv.AllowedTools)
    IN  IF k = 0 THEN ag
        ELSE IF ~servers[k].ListOk
             THEN [mcpServers |-> <<>>, MCPServerTools |-> <<>>,
                   listed |-> Append(ag.listed, servers[k].Name)]
        ELSE [mcpServers |-> Append(ag.mcpServers, servers[k]),
              listed |-> Append(ag.listed, servers[k].Name),
              MCPServerTools |->
                  [n \in DOMAIN ag.MCPServerTools \cup {srv.Name} |->
                      IF n = srv.Name THEN keep ELSE ag.MCPServerTools[n]]]

\* an iteration that replaces the provider's catalog entry instead of extending it
AddServer_Overwrites(ag, srv, servers) ==
    LET k == FindByName(servers, srv.Name)
        keep == Filter(servers[k].Tools, srv.AllowedTools)
    IN  IF k = 0 THEN ag
        ELSE IF ~servers[k].ListOk
             THEN [ag EXCEPT !.mcpServers = Append(@, servers[k]),
                             !.listed = Append(@, servers[k].Name)]
        ELSE [mcpServers |-> Append(ag.mcpServers, servers[k]),
              listed |-> Append(ag.listed, servers[k].Name),
              MCPServerTools |->
                  [n \in DOMAIN ag.MCPServerTools \cup {srv.Name} |->
                      IF n = srv.Name THEN keep ELSE ag.MCPServerTools[n]]]

\* one iteration of the constructor's loop, for the configured reference srv
AddServer(ag, srv, servers) ==
    LET k == FindByName(servers, srv.Name)
        old == IF srv.Name \in DOMAIN ag.MCPServerTools
               THEN ag.MCPServerTools[srv.Name] ELSE <<>>
        keep == old \o Filter(servers[k].Tools, srv.AllowedTools)
    IN  IF k = 0 THEN ag
        ELSE IF ~servers[k].ListOk
             THEN [ag EXCEPT !.mcpServers = Append(@, servers[k]),
                             !.listed = Append(@, servers[k].Name)]
        ELSE [mcpServers |-> Append(ag.mcpServers, servers[k]),
              listed |-> Append(ag.listed, servers[k].Name),
              MCPServerTools |->
                  [n \in DOMAIN ag.MCPServerTools \cup {srv.Name} |->
                      IF n = srv.Name THEN keep ELSE ag.MCPServerTools[n]]]

RECURSIVE NewMCPAgentFrom(_, _, _)
NewMCPAgentFrom(ag, mcpServersForAgent, servers) ==
    IF mcpServersForAgent = <<>> THEN ag
    ELSE NewMCPAgentFrom(AddServer(ag, Head(mcpServersForAgent), servers),
                         Tail(mcpServersForAgent), servers)

NewMCPAgent(mcpServersForAgent, servers) ==
    NewMCPAgentFrom([mcpServers |-> <<>>, MCPServerTools |-> <<>>, listed |-> <<>>],
                    mcpServersForAgent, servers)

RECURSIVE ToolBag(_, _)
\* the namespaced names of one provider's catalog entry, with multiplicity
ToolBag(serverName, agTs) ==
    IF agTs = <<>> THEN EmptyBag
    ELSE SetToBag({serverName \o "__" \o Head(agTs)}) (+) ToolBag(serverName, Tail(agTs))

RECURSIVE ToolBagOver(_, _)
ToolBagOver(names, catalog) ==
    IF names = {} THEN EmptyBag
    ELSE LET n == CHOOSE x \in names : TRUE
         IN  ToolBag(n, catalog[n]) (+) ToolBagOver(names \ {n}, catalog)

\* the tools advertised to the LLM; Go ranges over the map in no fixed order, so a bag
ExtractToolsFromAgent(catalog) == ToolBagOver(DOMAIN catalog, catalog)

(***************************************************************************)
(* MCPAgent.ExecuteTool, up to the provider call and after it.             *)
(***************************************************************************)
Separator == "__"

\* the error values ExecuteTool returns
ErrInvalidArguments == "invalid JSON arguments"
ErrNotFound == "given element is not found"
ErrCallFailed == "failed to call mcp tool"

\* no validation of the arguments at all
ArgumentsInvalid_Never(argumentsInJSON) == FALSE

\* argumentsInJSON is neither empty nor "{}" and does not unmarshal
ArgumentsInvalid(argumentsInJSON) ==
    IF argumentsInJSON = "" \/ argumentsInJSON = "{}" THEN FALSE
    ELSE UnmarshalAnyFails(argumentsInJSON)

\* the arguments sent to the provider: nil, or the raw JSON text
Arguments(argumentsInJSON) ==
    IF argumentsInJSON = "" \/ argumentsInJSON = "{}"
    THEN [nil |-> TRUE, raw |-> ""]
    ELSE [nil |-> FALSE, raw |-> argumentsInJSON]

\* toolName[:strings.Index(toolName, "__")]
ServerNameOf(toolName) == Slice(toolName, 0, Index(toolName, Separator))

\* toolName[strings.Index(toolName, "__")+2:]
LocalNameOf(toolName) == Slice(toolName, Index(toolName, Separator) + 2, Len(toolName))

\* a lookup that falls back to the first provider
FindToolServer_Default(servers, serverName) ==
    IF FindByName(servers, serverName) = 0 /\ Len(servers) > 0 THEN 1
    ELSE FindByName(servers, serverName)

\* slices.Find(m.mcpServers, ...): the first provider of that name, 0 for ErrNotFound
FindToolServer(servers, serverName) == FindByName(servers, serverName)

\* ExecuteTool from its entry to the provider call: it returns an error, panics
\* (a slice bound of -1), or issues CallTool on the provider found
ExecuteToolEnter(servers, toolName, argumentsInJSON) ==
    IF ArgumentsInvalid(argumentsInJSON)
    THEN [kind |-> "error", err |-> ErrInvalidArguments]
    ELSE IF Index(toolName, Separator) < 0
    THEN [kind |-> "panic", err |-> "slice bounds out of range"]
    ELSE LET k == FindToolServer(servers, ServerNameOf(toolName))
         IN  IF k = 0
             THEN [kind |-> "error", err |-> ErrNotFound]
             ELSE [kind |-> "call", err |-> "",
                   server |-> servers[k].Name,
                   Name |-> LocalNameOf(toolName),
                   Arguments |-> Arguments(argumentsInJSON)]

\* sonic.MarshalString(result) of a CallToolResult with one text content
MarshalString(result) ==
    "{\"content\":[{\"type\":\"text\",\"text\":\"" \o result.text \o "\"}]"
        \o (IF result.isError THEN ",\"isError\":true" ELSE "") \o "}"

\* a result the provider marks isError is an error of ExecuteTool as well
ExecuteToolReturn_IsErrorFails(ret) ==
    IF ret.failed \/ ret.result.isError
    THEN [kind |-> "error", err |-> ErrCallFailed, text |-> ""]
    ELSE [kind |-> "ok", err |-> "", text |-> MarshalString(ret.result)]

\* ExecuteTool after CallTool returned ret: a transport failure is an error, any
\* result (also one the provider marks isError) is returned as text
ExecuteToolReturn(ret) ==
    IF ret.failed
    THEN [kind |-> "error", err |-> ErrCallFailed, text |-> ""]
    ELSE [kind |-> "ok", err |-> "", text |-> MarshalString(ret.result)]

(***************************************************************************)
(* Formatting of what the turn writes for the human reader.                *)
(***************************************************************************)
DisplayCap == 1000

ToolUsageMarker(name) == "\n[tool_usage] " \o name \o "\n"

\* a cut that also takes a result exactly as long as the cap
Truncated_AtCap(toolRes) ==
    IF Len(toolRes) >= DisplayCap THEN Slice(toolRes, 0, DisplayCap) \o "..." ELSE toolRes

\* msgToPrint: the result cut to the display cap
Truncated(toolRes) ==
    IF Len(toolRes) > DisplayCap THEN Slice(toolRes, 0, DisplayCap) \o "..." ELSE toolRes

ToolResponseMarker(name, toolRes) ==
    "\n[tool_response] " \o name \o ": " \o Truncated(toolRes) \o "]\n\n"

ErrGenerating(err) == "Error generating content: " \o err
ErrExecuting(err) == "Error executing tool: " \o err
ErrGeneratingFinal(err) == "Error generating final content: " \o err

\* the two messages in the wrong order: the result before the request
ToolMessages_Swapped(suggestedTool, toolRes) ==
    << [Role |-> "tool", Part |-> [type |-> "ToolCallResponse",
                                   ToolCallID |-> suggestedTool.ID,
                                   Content |-> toolRes]],
       [Role |-> "ai", Part |-> [type |-> "ToolCall", ID |-> suggestedTool.ID,
                                 Name |-> suggestedTool.Name,
                                 Arguments |-> suggestedTool.Arguments]] >>

\* the two messages appended for one executed tool call
ToolMessages(suggestedTool, toolRes) ==
    << [Role |-> "ai", Part |-> [type |-> "ToolCall", ID |-> suggestedTool.ID,
                                 Name |-> suggestedTool.Name,
                                 Arguments |-> suggestedTool.Arguments]],
       [Role |-> "tool", Part |-> [type |-> "ToolCallResponse",
                                   ToolCallID |-> suggestedTool.ID,
                                   Content |-> toolRes]] >>

HumanMessage(prompt) == [Role |-> "human", Part |-> [type |-> "Text", Text |-> prompt]]

(***************************************************************************)
(* The environment: the live tool providers, the agent configurations, and *)
(* what the LLM and the providers may answer.                              *)
(***************************************************************************)
\* the live providers: calc lists two tools, the tool listing of files fails
LiveServers ==
    << [Name |-> "calc", ListOk |-> TRUE, Tools |-> <<"add", "sub">>],
       [Name |-> "files", ListOk |-> FALSE, Tools |-> <<>>] >>

\* the agent configurations: web names no live provider
AgentConfigs ==
    { << [Name |-> "calc", AllowedTools |-> <<"add">>],
         [Name |-> "files", AllowedTools |-> <<>>] >>,
      << [Name |-> "web", AllowedTools |-> <<>>],
         [Name |-> "calc", AllowedTools |-> <<>>] >> }

Prompts == {"What's 2+2 using the calculator tool?"}

\* the tool calls the LLM may request: two good ones, one with malformed arguments,
\* one on a provider the agent does not know, one whose name has no separator
ToolCallKinds ==
    { [Name |-> "calc__add", Arguments |-> "{\"a\":2,\"b\":2}"],
      [Name |-> "calc__sub", Arguments |-> "{}"],
      [Name |-> "calc__add", Arguments |-> "{bad"],
      [Name |-> "web__get", Arguments |-> ""],
      [Name |-> "add", Arguments |-> "{}"] }

SeqsUpTo(S, n) == UNION {[1..k -> S] : k \in 0..n}

\* the calls of one response, each with its own ID
WithIDs(calls) ==
    [i \in DOMAIN calls |->
        [ID |-> "call_" \o ToString(i), Name |-> calls[i].Name,
         Arguments |-> calls[i].Arguments]]

LLMFailure == [failed |-> TRUE, err |-> "llm unavailable", Content |-> "", ToolCalls |-> <<>>]

LLMResponse(content, calls) ==
    [failed |-> FALSE, err |-> "", Content |-> content, ToolCalls |-> WithIDs(calls)]

\* what the first LLM call may return (resp.Choices[0])
FirstReturns ==
    {LLMFailure} \cup
    {LLMResponse(c, tc) : c \in {"", "Hi"}, tc \in SeqsUpTo(ToolCallKinds, MaxCalls)}

\* what the final LLM call may return: it may again ask for tools
FinalReturns ==
    {LLMFailure} \cup
    {LLMResponse("The answer is 4.", tc) :
        tc \in {<<>>, <<[Name |-> "calc__add", Arguments |-> "{\"a\":4,\"b\":4}"]>>}}

\* the fragments the LLM streams in a turn: text, and the two tool-call shapes
Chunks == {"Hi", "[\"tool_call_delta\"]", "{\"choices\":[{\"tool_calls\":[1]}]}"}

\* what a provider's CallTool may return: a transport failure, a result, or a
\* result by which the tool reports its own failure
CallToolReturns ==
    { [failed |-> TRUE, result |-> [text |-> "", isError |-> FALSE]],
      [failed |-> FALSE, result |-> [text |-> "4", isError |-> FALSE]],
      [failed |-> FALSE, result |-> [text |-> "overflow", isError |-> TRUE]] }

(***************************************************************************)
(* The state.                                                              *)
(***************************************************************************)
VARIABLES
    mcpServers,            \* the agent's providers (MCPAgent.mcpServers)
    MCPServerTools,        \* the agent's tool catalog
    MCPServerNames,        \* the provider references the agent was configured with
    agentMCPServers,       \* the live providers the agent was constructed over
    listLog,               \* the ListTools queries sent to providers, in order
    pc,                    \* where the turn is
    mode,                  \* "none", "blocking", "streaming", "tool" (a direct ExecuteTool)
    addNotFinalResponses,  \* whether progress markers are produced
    msgs,                  \* the conversation of the turn
    toolCalls,             \* resp.Choices[0].ToolCalls of the first response
    idx,                   \* the position of the loop over toolCalls
    response,              \* the text the blocking turn accumulates
    streamingChan,         \* the unbuffered channel: the item a sender is blocked on
    closed,                \* how many times streamingChan was closed
    received,              \* what the consumer received from streamingChan, in order
    llmLog,                \* the LLM calls issued, in order
    llmRets,               \* what the LLM calls returned, in order
    cbLog,                 \* the fragments handed to the streaming callbacks, in order
    execLog,               \* the ExecuteTool invocations, in order
    execRes,               \* how the finished ExecuteTool invocations ended, in order
    callLog,               \* the CallTool requests sent to providers, in order
    callRets,              \* what the providers' CallTool returned, in order
    ctxDone,               \* whether the request context (ctx) has been cancelled
    outcome                \* how the call ended for its caller

vars == << mcpServers, MCPServerTools, MCPServerNames, agentMCPServers, listLog,
           pc, mode, addNotFinalResponses, msgs, toolCalls,
           idx, response, streamingChan, closed, received, llmLog, llmRets, cbLog,
           execLog, execRes, callLog, callRets, ctxDone, outcome >>

agentVars == << mcpServers, MCPServerTools, MCPServerNames, agentMCPServers, listLog >>
chanVars == << streamingChan, closed, received, cbLog >>

NoOutcome == [kind |-> "none", text |-> "", err |-> ""]
Returned(text) == [kind |-> "returned", text |-> text, err |-> ""]
Panicked(err) == [kind |-> "panic", text |-> "", err |-> err]

\* an item on streamingChan: the text sent, and (for the reader of the model) its origin
Item(kind, text) == [kind |-> kind, text |-> text]

LLMCall(conversation, streaming) ==
    [msgs |-> conversation, tools |-> ExtractToolsFromAgent(MCPServerTools),
     streaming |-> streaming]

\* the agent NewMCPAgent(mcpServersForAgent, liveServers) returns
Constructed(mcpServersForAgent, liveServers) ==
    LET ag == NewMCPAgent(mcpServersForAgent, liveServers)
    IN  /\ mcpServers = ag.mcpServers
        /\ MCPServerTools = ag.MCPServerTools
        /\ listLog = ag.listed
        /\ MCPServerNames = mcpServersForAgent
        /\ agentMCPServers = liveServers

Init ==
    /\ \E cfg \in AgentConfigs : Constructed(cfg, LiveServers)
    /\ pc = "idle"
    /\ mode = "none"
    /\ addNotFinalResponses = FALSE
    /\ msgs = <<>>
    /\ toolCalls = <<>>
    /\ idx = 0
    /\ response = ""
    /\ streamingChan = <<>>
    /\ closed = 0
    /\ received = <<>>
    /\ llmLog = <<>>
    /\ llmRets = <<>>
    /\ cbLog = <<>>
    /\ execLog = <<>>
    /\ execRes = <<>>
    /\ callLog = <<>>
    /\ callRets = <<>>
    /\ ctxDone = FALSE
    /\ outcome = NoOutcome

(***************************************************************************)
(* ExecuteTool as a step of a turn: the invocation is logged, and it       *)
(* either ends at once (an error or a panic) or sends CallTool.            *)
(***************************************************************************)
ToolResult(kind, err, text) == [kind |-> kind, err |-> err, text |-> text]

\* the logs after ExecuteTool(toolName, argumentsInJSON) ran up to the provider call
EnterLogs(toolName, argumentsInJSON) ==
    LET e == ExecuteToolEnter(mcpServers, toolName, argumentsInJSON)
    IN  /\ execLog' = Append(execLog, [Name |-> toolName, Arguments |-> argumentsInJSON])
        /\ UNCHANGED callRets
        /\ IF e.kind = "call"
           THEN /\ callLog' = Append(callLog, [server |-> e.server, Name |-> e.Name,
                                               Arguments |-> e.Arguments])
                /\ UNCHANGED execRes
           ELSE /\ execRes' = Append(execRes, ToolResult(e.kind, e.err, ""))
                /\ UNCHANGED callLog

(***************************************************************************)
(* The blocking turn: MCPAgent.GenerateContent.                            *)
(***************************************************************************)
\* the call, up to the first LLM call
GenerateContent(prompt, flag) ==
    /\ pc = "idle"
    /\ mode' = "blocking"
    /\ addNotFinalResponses' = flag
    /\ msgs' = <<HumanMessage(prompt)>>
    /\ llmLog' = Append(llmLog, LLMCall(msgs', FALSE))
    /\ pc' = "b_llm1"
    /\ UNCHANGED << agentVars, ctxDone, chanVars, toolCalls, idx, response, llmRets,
                    execLog, execRes, callLog, callRets, outcome >>

\* the always-true test a slip of the comparison gives (len(toolCalls) >= 0)
B_LoopNeeded_Always(calls) == Len(calls) >= 0

\* len(toolCalls) > 0
B_LoopNeeded(calls) == Len(calls) > 0

\* the first LLM call returns: an error panics, a response without tool calls is
\* the answer, one with tool calls starts the loop
B_FirstResponse(resp) ==
    /\ pc = "b_llm1"
    /\ llmRets' = Append(llmRets, resp)
    /\ IF resp.failed
       THEN /\ outcome' = Panicked(resp.err)
            /\ pc' = "done"
            /\ UNCHANGED << toolCalls, idx, response >>
       ELSE /\ toolCalls' = resp.ToolCalls
            /\ IF B_LoopNeeded(resp.ToolCalls)
               THEN /\ response' = ""
                    /\ idx' = 1
                    /\ pc' = "b_loop"
                    /\ UNCHANGED outcome
               ELSE /\ response' = "" \o resp.Content
                    /\ outcome' = Returned(response')
                    /\ pc' = "done"
                    /\ UNCHANGED idx
    /\ UNCHANGED << agentVars, ctxDone, chanVars, mode, addNotFinalResponses, msgs, llmLog,
                    execLog, execRes, callLog, callRets >>

\* one iteration of the loop up to the provider call: the usage marker, then ExecuteTool
B_ExecuteTool ==
    /\ pc = "b_loop"
    /\ idx <= Len(toolCalls)
    /\ LET suggestedTool == toolCalls[idx]
           e == ExecuteToolEnter(mcpServers, suggestedTool.Name, suggestedTool.Arguments)
       IN  /\ response' = IF addNotFinalResponses
                          THEN response \o ToolUsageMarker(suggestedTool.Name)
                          ELSE response
           /\ EnterLogs(suggestedTool.Name, suggestedTool.Arguments)
           /\ IF e.kind = "call"
              THEN pc' = "b_calltool" /\ UNCHANGED outcome
              ELSE pc' = "done" /\ outcome' = Panicked(e.err)
    /\ UNCHANGED << agentVars, ctxDone, chanVars, mode, addNotFinalResponses, msgs, toolCalls,
                    idx, llmLog, llmRets >>

\* an iteration that, when ExecuteTool returns an error, invokes the same tool again
B_ToolResult_Retry(ret) ==
    /\ pc = "b_calltool"
    /\ LET suggestedTool == toolCalls[idx]
           x == ExecuteToolReturn(ret)
       IN  /\ callRets' = Append(callRets, ret)
           /\ execRes' = Append(execRes, ToolResult(x.kind, x.err, x.text))
           /\ IF x.kind = "error"
              THEN /\ pc' = "b_loop"
                   /\ UNCHANGED << msgs, response, idx, outcome >>
              ELSE /\ msgs' = msgs \o ToolMessages(suggestedTool, x.text)
                   /\ response' = IF addNotFinalResponses
                                  THEN response \o ToolResponseMarker(suggestedTool.Name, x.text)
                                  ELSE response
                   /\ idx' = idx + 1
                   /\ pc' = "b_loop"
                   /\ UNCHANGED outcome
    /\ UNCHANGED << agentVars, ctxDone, chanVars, mode, addNotFinalResponses, toolCalls,
                    llmLog, llmRets, execLog, callLog >>

\* the provider call returns and the iteration ends: the two messages, the response marker
B_ToolResult(ret) ==
    /\ pc = "b_calltool"
    /\ LET suggestedTool == toolCalls[idx]
           x == ExecuteToolReturn(ret)
       IN  /\ callRets' = Append(callRets, ret)
           /\ execRes' = Append(execRes, ToolResult(x.kind, x.err, x.text))
           /\ IF x.kind = "error"
              THEN /\ outcome' = Panicked(x.err)
                   /\ pc' = "done"
                   /\ UNCHANGED << msgs, response, idx >>
              ELSE /\ msgs' = msgs \o ToolMessages(suggestedTool, x.text)
                   /\ response' = IF addNotFinalResponses
                                  THEN response \o ToolResponseMarker(suggestedTool.Name, x.text)
                                  ELSE response
                   /\ idx' = idx + 1
                   /\ pc' = "b_loop"
                   /\ UNCHANGED outcome
    /\ UNCHANGED << agentVars, ctxDone, chanVars, mode, addNotFinalResponses, toolCalls,
                    llmLog, llmRets, execLog, callLog >>

\* the final LLM call issued without waiting for the provider call in progress
B_FinalCall_Early ==
    /\ \/ pc = "b_loop" /\ idx > Len(toolCalls)
       \/ pc = "b_calltool" /\ idx = Len(toolCalls)
    /\ llmLog' = Append(llmLog, LLMCall(msgs, FALSE))
    /\ pc' = "b_llm2"
    /\ UNCHANGED << agentVars, ctxDone, chanVars, mode, addNotFinalResponses, msgs, toolCalls, idx,
                    response, llmRets, execLog, execRes, callLog, callRets, outcome >>

\* after the loop: the final LLM call, on the extended conversation
B_FinalCall ==
    /\ pc = "b_loop"
    /\ idx > Len(toolCalls)
    /\ llmLog' = Append(llmLog, LLMCall(msgs, FALSE))
    /\ pc' = "b_llm2"
    /\ UNCHANGED << agentVars, ctxDone, chanVars, mode, addNotFinalResponses, msgs, toolCalls, idx,
                    response, llmRets, execLog, execRes, callLog, callRets, outcome >>

\* a final response handled like the first: its tool calls start the loop again
B_FinalResponse_LoopBack(resp) ==
    /\ pc = "b_llm2"
    /\ llmRets' = Append(llmRets, resp)
    /\ IF resp.failed
       THEN /\ outcome' = Panicked(resp.err)
            /\ pc' = "done"
            /\ UNCHANGED << response, toolCalls, idx >>
       ELSE IF Len(resp.ToolCalls) > 0
       THEN /\ toolCalls' = resp.ToolCalls
            /\ idx' = 1
            /\ pc' = "b_loop"
            /\ UNCHANGED << response, outcome >>
       ELSE /\ response' = response \o resp.Content
            /\ outcome' = Returned(response')
            /\ pc' = "done"
            /\ UNCHANGED << toolCalls, idx >>
    /\ UNCHANGED << agentVars, ctxDone, chanVars, mode, addNotFinalResponses, msgs,
                    llmLog, execLog, execRes, callLog, callRets >>

\* the final LLM call returns: an error panics, else its content ends the answer
B_FinalResponse(resp) ==
    /\ pc = "b_llm2"
    /\ llmRets' = Append(llmRets, resp)
    /\ IF resp.failed
       THEN /\ outcome' = Panicked(resp.err)
            /\ UNCHANGED response
       ELSE /\ response' = response \o resp.Content
            /\ outcome' = Returned(response')
    /\ pc' = "done"
    /\ UNCHANGED << agentVars, ctxDone, chanVars, mode, addNotFinalResponses, msgs, toolCalls, idx,
                    llmLog, execLog, execRes, callLog, callRets >>

Blocking ==
    \/ \E prompt \in Prompts, flag \in BOOLEAN : GenerateContent(prompt, flag)
    \/ \E resp \in FirstReturns : B_FirstResponse(resp)
    \/ B_ExecuteTool
    \/ \E ret \in CallToolReturns : B_ToolResult(ret)
    \/ B_FinalCall
    \/ \E resp \in FinalReturns : B_FinalResponse(resp)

(***************************************************************************)
(* The streaming turn: MCPAgent.GenerateContentAsStreaming.  The channel   *)
(* is unbuffered: a send leaves its item in streamingChan and the sender   *)
(* goes on only when the consumer has taken it.                            *)
(***************************************************************************)
\* a channel with room: a send never waits for the consumer
ChanIdle_Buffered == TRUE

ChanIdle == streamingChan = <<>>

\* the call: the channel is made and returned, the background task issues the first LLM call
GenerateContentAsStreaming(prompt, flag) ==
    /\ pc = "idle"
    /\ mode' = "streaming"
    /\ addNotFinalResponses' = flag
    /\ msgs' = <<HumanMessage(prompt)>>
    /\ llmLog' = Append(llmLog, LLMCall(msgs', TRUE))
    /\ pc' = "s_llm1"
    /\ UNCHANGED << agentVars, ctxDone, chanVars, toolCalls, idx, response, llmRets,
                    execLog, execRes, callLog, callRets, outcome >>

\* the LLM client hands one fragment of the first LLM call to its callback
S_FirstCallback(chunk, max) ==
    /\ pc = "s_llm1"
    /\ ChanIdle
    /\ Len(cbLog) < max
    /\ cbLog' = Append(cbLog, [call |-> 1, chunk |-> chunk])
    /\ streamingChan' = [i \in DOMAIN FirstStreamingFunc(chunk) |->
                            Item("first_chunk", FirstStreamingFunc(chunk)[i])]
    /\ UNCHANGED << agentVars, ctxDone, pc, mode, addNotFinalResponses, msgs, toolCalls, idx,
                    response, closed, received, llmLog, llmRets, execLog, execRes,
                    callLog, callRets, outcome >>

\* the test that misses a single tool call (len(...) > 1)
S_LoopNeeded_OffByOne(calls) == Len(calls) > 1

\* len(resp.Choices) > 0 && len(resp.Choices[0].ToolCalls) > 0, of a response with a choice
S_LoopNeeded(calls) == Len(calls) > 0

\* the first LLM call returns: an error is sent as text, tool calls start the loop
S_FirstResponse(resp) ==
    /\ pc = "s_llm1"
    /\ ChanIdle
    /\ llmRets' = Append(llmRets, resp)
    /\ IF resp.failed
       THEN /\ streamingChan' = <<Item("error", ErrGenerating(resp.err))>>
            /\ pc' = "s_return"
            /\ UNCHANGED << toolCalls, idx >>
       ELSE /\ toolCalls' = resp.ToolCalls
            /\ UNCHANGED streamingChan
            /\ IF S_LoopNeeded(resp.ToolCalls)
               THEN idx' = 1 /\ pc' = "s_loop"
               ELSE pc' = "s_return" /\ UNCHANGED idx
    /\ UNCHANGED << agentVars, ctxDone, mode, addNotFinalResponses, msgs, response, closed,
                    received, cbLog, llmLog, execLog, execRes, callLog, callRets, outcome >>

\* the head of one iteration: the usage marker, when markers are on
\* the usage marker sent whether or not markers were asked for
S_ToolUsage_Always ==
    /\ pc = "s_loop"
    /\ idx <= Len(toolCalls)
    /\ ChanIdle
    /\ streamingChan' = <<Item("tool_usage", ToolUsageMarker(toolCalls[idx].Name))>>
    /\ pc' = "s_exec"
    /\ UNCHANGED << agentVars, ctxDone, mode, addNotFinalResponses, msgs, toolCalls, idx, response,
                    closed, received, cbLog, llmLog, llmRets, execLog, execRes, callLog, callRets,
                    outcome >>

S_ToolUsage ==
    /\ pc = "s_loop"
    /\ idx <= Len(toolCalls)
    /\ ChanIdle
    /\ streamingChan' = IF addNotFinalResponses
                        THEN <<Item("tool_usage", ToolUsageMarker(toolCalls[idx].Name))>>
                        ELSE streamingChan
    /\ pc' = "s_exec"
    /\ UNCHANGED << agentVars, ctxDone, mode, addNotFinalResponses, msgs, toolCalls, idx, response,
                    closed, received, cbLog, llmLog, llmRets, execLog, execRes, callLog, callRets,
                    outcome >>

\* the error branch without its return: the error is sent and the loop goes on
S_ToolFailed_NoReturn(err) ==
    /\ streamingChan' = <<Item("error", ErrExecuting(err))>>
    /\ msgs' = msgs \o ToolMessages(toolCalls[idx], "")
    /\ idx' = idx + 1
    /\ pc' = "s_loop"

\* ExecuteTool returned an error: it is sent as text and the task returns
S_ToolFailed(err) ==
    /\ streamingChan' = <<Item("error", ErrExecuting(err))>>
    /\ pc' = "s_return"
    /\ UNCHANGED << msgs, idx >>

\* ExecuteTool up to the provider call: an error is sent as text and the task
\* returns; a panic runs the deferred close and ends the process
S_ExecuteTool ==
    /\ pc = "s_exec"
    /\ ChanIdle
    /\ LET suggestedTool == toolCalls[idx]
           e == ExecuteToolEnter(mcpServers, suggestedTool.Name, suggestedTool.Arguments)
       IN  /\ EnterLogs(suggestedTool.Name, suggestedTool.Arguments)
           /\ IF e.kind = "call"
              THEN /\ pc' = "s_calltool"
                   /\ UNCHANGED << streamingChan, closed, outcome, msgs, idx >>
              ELSE IF e.kind = "error"
              THEN /\ S_ToolFailed(e.err)
                   /\ UNCHANGED << closed, outcome >>
              ELSE /\ closed' = closed + 1
                   /\ outcome' = Panicked(e.err)
                   /\ pc' = "done"
                   /\ UNCHANGED << streamingChan, msgs, idx >>
    /\ UNCHANGED << agentVars, ctxDone, mode, addNotFinalResponses, toolCalls, response,
                    received, cbLog, llmLog, llmRets >>

\* an iteration that keeps the messages of the latest tool call only
S_ToolResult_Replace(ret) ==
    /\ pc = "s_calltool"
    /\ LET suggestedTool == toolCalls[idx]
           x == ExecuteToolReturn(ret)
       IN  /\ callRets' = Append(callRets, ret)
           /\ execRes' = Append(execRes, ToolResult(x.kind, x.err, x.text))
           /\ IF x.kind = "error"
              THEN S_ToolFailed(x.err)
              ELSE /\ msgs' = <<msgs[1]>> \o ToolMessages(suggestedTool, x.text)
                   /\ streamingChan' =
                         IF addNotFinalResponses
                         THEN <<Item("tool_response",
                                     ToolResponseMarker(suggestedTool.Name, x.text))>>
                         ELSE streamingChan
                   /\ idx' = idx + 1
                   /\ pc' = "s_loop"
    /\ UNCHANGED << agentVars, ctxDone, mode, addNotFinalResponses, toolCalls, response, closed,
                    received, cbLog, llmLog, llmRets, execLog, callLog, outcome >>

\* the provider call returns and the iteration ends: the two messages, the response marker
S_ToolResult(ret) ==
    /\ pc = "s_calltool"
    /\ LET suggestedTool == toolCalls[idx]
           x == ExecuteToolReturn(ret)
       IN  /\ callRets' = Append(callRets, ret)
           /\ execRes' = Append(execRes, ToolResult(x.kind, x.err, x.text))
           /\ IF x.kind = "error"
              THEN S_ToolFailed(x.err)
              ELSE /\ msgs' = msgs \o ToolMessages(suggestedTool, x.text)
                   /\ streamingChan' =
                         IF addNotFinalResponses
                         THEN <<Item("tool_response",
                                     ToolResponseMarker(suggestedTool.Name, x.text))>>
                         ELSE streamingChan
                   /\ idx' = idx + 1
                   /\ pc' = "s_loop"
    /\ UNCHANGED << agentVars, ctxDone, mode, addNotFinalResponses, toolCalls, response, closed,
                    received, cbLog, llmLog, llmRets, execLog, callLog, outcome >>

\* after the loop: the final LLM call, on the extended conversation
S_FinalCall ==
    /\ pc = "s_loop"
    /\ idx > Len(toolCalls)
    /\ ChanIdle
    /\ llmLog' = Append(llmLog, LLMCall(msgs, TRUE))
    /\ pc' = "s_llm2"
    /\ UNCHANGED << agentVars, ctxDone, chanVars, mode, addNotFinalResponses, msgs, toolCalls, idx,
                    response, llmRets, execLog, execRes, callLog, callRets, outcome >>

\* the LLM client hands one fragment of the final LLM call to its callback
S_FinalCallback(chunk, max) ==
    /\ pc = "s_llm2"
    /\ ChanIdle
    /\ Len(cbLog) < max
    /\ cbLog' = Append(cbLog, [call |-> 2, chunk |-> chunk])
    /\ streamingChan' = [i \in DOMAIN FinalStreamingFunc(chunk) |->
                            Item("final_chunk", FinalStreamingFunc(chunk)[i])]
    /\ UNCHANGED << agentVars, ctxDone, pc, mode, addNotFinalResponses, msgs, toolCalls, idx,
                    response, closed, received, llmLog, llmRets, execLog, execRes,
                    callLog, callRets, outcome >>

\* the final LLM call returns: an error is sent as text; the response is dropped
S_FinalResponse(resp) ==
    /\ pc = "s_llm2"
    /\ ChanIdle
    /\ llmRets' = Append(llmRets, resp)
    /\ streamingChan' = IF resp.failed
                        THEN <<Item("error", ErrGeneratingFinal(resp.err))>>
                        ELSE streamingChan
    /\ pc' = "s_return"
    /\ UNCHANGED << agentVars, ctxDone, mode, addNotFinalResponses, msgs, toolCalls, idx, response,
                    closed, received, cbLog, llmLog, execLog, execRes, callLog, callRets, outcome >>

\* a close placed before the final LLM call has returned
S_Close_Early ==
    /\ pc \in {"s_return", "s_llm2"}
    /\ ChanIdle
    /\ closed' = closed + 1
    /\ outcome' = Returned("")
    /\ pc' = IF pc = "s_return" THEN "done" ELSE pc
    /\ UNCHANGED << agentVars, ctxDone, mode, addNotFinalResponses, msgs, toolCalls, idx, response,
                    streamingChan, received, cbLog, llmLog, llmRets, execLog, execRes,
                    callLog, callRets >>

\* a task that clears the agent's catalog when it is done
S_Close_DropsCatalog ==
    /\ pc = "s_return"
    /\ ChanIdle
    /\ closed' = closed + 1
    /\ outcome' = Returned("")
    /\ pc' = "done"
    /\ MCPServerTools' = <<>>
    /\ UNCHANGED << mcpServers, MCPServerNames, agentMCPServers, listLog, ctxDone, mode,
                    addNotFinalResponses, msgs, toolCalls, idx, response,
                    streamingChan, received, cbLog, llmLog, llmRets, execLog, execRes,
                    callLog, callRets >>

\* the background task returns: the deferred close(streamingChan)
S_Close ==
    /\ pc = "s_return"
    /\ ChanIdle
    /\ closed' = closed + 1
    /\ outcome' = Returned("")
    /\ pc' = "done"
    /\ UNCHANGED << agentVars, ctxDone, mode, addNotFinalResponses, msgs, toolCalls, idx, response,
                    streamingChan, received, cbLog, llmLog, llmRets, execLog, execRes,
                    callLog, callRets >>

\* the consumer takes the item a sender is blocked on
Receive ==
    /\ streamingChan # <<>>
    /\ received' = Append(received, streamingChan[1])
    /\ streamingChan' = Tail(streamingChan)
    /\ UNCHANGED << agentVars, ctxDone, pc, mode, addNotFinalResponses, msgs, toolCalls, idx,
                    response, closed, cbLog, llmLog, llmRets, execLog, execRes, callLog, callRets,
                    outcome >>

Streaming ==
    \/ \E prompt \in Prompts, flag \in BOOLEAN : GenerateContentAsStreaming(prompt, flag)
    \/ \E chunk \in Chunks : S_FirstCallback(chunk, MaxChunks)
    \/ \E resp \in FirstReturns : S_FirstResponse(resp)
    \/ S_ToolUsage
    \/ S_ExecuteTool
    \/ \E ret \in CallToolReturns : S_ToolResult(ret)
    \/ S_FinalCall
    \/ \E chunk \in Chunks : S_FinalCallback(chunk, MaxChunks)
    \/ \E resp \in FinalReturns : S_FinalResponse(resp)
    \/ S_Close
    \/ Receive

Next == Blocking \/ Streaming

Spec == Init /\ [][Next]_vars

(***************************************************************************)
(* ExecuteTool called on its own (it is an exported method), over more     *)
(* tool names and argument texts than a turn of the model requests.        *)
(***************************************************************************)
Failed(err) == [kind |-> "error", text |-> "", err |-> err]

ToolNameInputs ==
    { "calc__add", "calc__add__x", "calc___add", "calc__", "files__read", "web__get",
      "Calc__add", "__add", "calc_add", "add", "" }

ArgumentInputs ==
    { "", "{}", "{\"a\":2,\"b\":2}", " {}", "[1]", "null", "4",
      "{bad", "{\"a\":}", "{} {}", "{\"a\":2,}", "a" }

ExecuteTool(toolName, argumentsInJSON) ==
    /\ pc = "idle"
    /\ mode' = "tool"
    /\ LET e == ExecuteToolEnter(mcpServers, toolName, argumentsInJSON)
       IN  /\ EnterLogs(toolName, argumentsInJSON)
           /\ IF e.kind = "call"
              THEN pc' = "x_calltool" /\ UNCHANGED outcome
              ELSE IF e.kind = "error"
              THEN pc' = "done" /\ outcome' = Failed(e.err)
              ELSE pc' = "done" /\ outcome' = Panicked(e.err)
    /\ UNCHANGED << agentVars, ctxDone, chanVars, addNotFinalResponses, msgs, toolCalls, idx,
                    response, llmLog, llmRets >>

\* the provider call returns, and ExecuteTool with it
X_ToolResult(ret) ==
    /\ pc = "x_calltool"
    /\ LET x == ExecuteToolReturn(ret)
       IN  /\ callRets' = Append(callRets, ret)
           /\ execRes' = Append(execRes, ToolResult(x.kind, x.err, x.text))
           /\ outcome' = IF x.kind = "error" THEN Failed(x.err) ELSE Returned(x.text)
    /\ pc' = "done"
    /\ UNCHANGED << agentVars, ctxDone, chanVars, mode, addNotFinalResponses, msgs, toolCalls, idx,
                    response, llmLog, llmRets, execLog, callLog >>

NextExecuteTool ==
    \/ \E toolName \in ToolNameInputs, argumentsInJSON \in ArgumentInputs :
          ExecuteTool(toolName, argumentsInJSON)
    \/ \E ret \in CallToolReturns : X_ToolResult(ret)

SpecExecuteTool == Init /\ [][NextExecuteTool]_vars

(***************************************************************************)
(* The first LLM call of a streaming turn over more fragment shapes than a *)
(* turn of the model streams: what the first callback lets through.        *)
(***************************************************************************)
ClassifierChunks ==
    { "Hi", "", "4", "null", "\"Hi\"", "[1", "[]", "[ ]", "{}",
      "[\"tool_call_delta\"]", " [1] ",
      "{\"choices\":[{\"tool_calls\":[1]}]}",
      "{\"choices\":[{\"tool_calls\":[1]}]",
      "{\"choices\":[{\"tool_calls\":[]}]}",
      "{\"choices\":[{\"tool_calls\":4}]}",
      "{\"choices\":[{\"content\":\"Hi\"}]}",
      "{\"choices\":[{\"content\":\"Hi\",\"tool_calls\":[1]}]}",
      "{\"choices\":[{\"content\":\"Hi\"},{\"tool_calls\":[1]}]}",
      "{\"choices\":[]}", "{\"choices\":[4]}",
      "{\"choices\":{\"tool_calls\":[1]}}",
      "{\"tool_calls\":[1]}" }

NextClassifier ==
    \/ \E prompt \in Prompts, flag \in BOOLEAN : GenerateContentAsStreaming(prompt, flag)
    \/ \E chunk \in ClassifierChunks : S_FirstCallback(chunk, MaxClassified)
    \/ Receive

SpecClassifier == Init /\ [][NextClassifier]_vars

(***************************************************************************)
(* The constructor over more providers and provider references than the    *)
(* turns of the model use, followed by one ExecuteTool of a tool the agent *)
(* advertises.                                                             *)
(***************************************************************************)
MaxRefs == 2

\* the lists of live providers an agent may be constructed over
CatalogServers ==
    { LiveServers,
      << [Name |-> "calc_", ListOk |-> TRUE, Tools |-> <<"add">>],
         [Name |-> "calc", ListOk |-> TRUE, Tools |-> <<"_add", "add">>] >>,
      << [Name |-> "my__srv", ListOk |-> TRUE, Tools |-> <<"get">>],
         [Name |-> "web", ListOk |-> TRUE, Tools |-> <<"get", "get__all">>] >> }

\* the provider references an agent may be configured with
CatalogRefs ==
    { [Name |-> n, AllowedTools |-> a] :
        n \in {"calc", "calc_", "files", "web", "my__srv"},
        a \in {<<>>, <<"add", "nope">>} }

\* the state before NewMCPAgent is called
InitCatalog ==
    /\ mcpServers = <<>>
    /\ MCPServerTools = <<>>
    /\ MCPServerNames = <<>>
    /\ agentMCPServers = <<>>
    /\ listLog = <<>>
    /\ pc = "new"
    /\ mode = "none"
    /\ addNotFinalResponses = FALSE
    /\ msgs = <<>>
    /\ toolCalls = <<>>
    /\ idx = 0
    /\ response = ""
    /\ streamingChan = <<>>
    /\ closed = 0
    /\ received = <<>>
    /\ llmLog = <<>>
    /\ llmRets = <<>>
    /\ cbLog = <<>>
    /\ execLog = <<>>
    /\ execRes = <<>>
    /\ callLog = <<>>
    /\ callRets = <<>>
    /\ ctxDone = FALSE
    /\ outcome = NoOutcome

\* NewMCPAgent(ctx, name, mcpServersForAgent, servers, ...) runs and returns the agent
NewAgent(mcpServersForAgent, liveServers) ==
    /\ pc = "new"
    /\ LET ag == NewMCPAgent(mcpServersForAgent, liveServers)
       IN  /\ mcpServers' = ag.mcpServers
           /\ MCPServerTools' = ag.MCPServerTools
           /\ listLog' = ag.listed
    /\ MCPServerNames' = mcpServersForAgent
    /\ agentMCPServers' = liveServers
    /\ pc' = "idle"
    /\ UNCHANGED << chanVars, ctxDone, mode, addNotFinalResponses, msgs, toolCalls, idx,
                    response, llmLog, llmRets, execLog, execRes, callLog, callRets, outcome >>

\* the names the agent advertises to the LLM
Advertised == BagToSet(ExtractToolsFromAgent(MCPServerTools))

NextCatalog ==
    \/ \E mcpServersForAgent \in SeqsUpTo(CatalogRefs, MaxRefs),
          liveServers \in CatalogServers : NewAgent(mcpServersForAgent, liveServers)
    \/ \E toolName \in Advertised, argumentsInJSON \in {"", "{\"a\":2,\"b\":2}"} :
          ExecuteTool(toolName, argumentsInJSON)
    \/ \E ret \in CallToolReturns : X_ToolResult(ret)

SpecCatalog == InitCatalog /\ [][NextCatalog]_vars

(***************************************************************************)
(* Turns whose tools return results around the display cap: as long as the *)
(* cap, one longer, and well beyond it.                                    *)
(***************************************************************************)
RECURSIVE Pad(_)
\* a text of n characters
Pad(n) ==
    IF n = 0 THEN ""
    ELSE IF n % 2 = 0 THEN LET half == Pad(n \div 2) IN half \o half
    ELSE "x" \o Pad(n - 1)

\* what MarshalString adds around the text of a result
MarshalOverhead == Len(MarshalString([text |-> "", isError |-> FALSE]))

LongCallToolReturns ==
    { [failed |-> FALSE, result |-> [text |-> t, isError |-> FALSE]] :
        t \in {"4", Pad(DisplayCap - MarshalOverhead),
               Pad(DisplayCap - MarshalOverhead + 1), Pad(DisplayCap + 7)} }
    \cup { [failed |-> FALSE, result |-> [text |-> Pad(DisplayCap), isError |-> TRUE]] }

\* first responses that request one to MaxCalls tools the agent can run
LongFirstReturns ==
    { LLMResponse("", tc) :
        tc \in SeqsUpTo({c \in ToolCallKinds : c.Name \in {"calc__add", "calc__sub"}
                                                /\ c.Arguments # "{bad"}, MaxCalls) \ {<<>>} }

NextTruncation ==
    \/ \E prompt \in Prompts, flag \in BOOLEAN : GenerateContent(prompt, flag)
    \/ \E resp \in LongFirstReturns : B_FirstResponse(resp)
    \/ B_ExecuteTool
    \/ \E ret \in LongCallToolReturns : B_ToolResult(ret)
    \/ B_FinalCall
    \/ \E resp \in FinalReturns : B_FinalResponse(resp)
    \/ \E prompt \in Prompts, flag \in BOOLEAN : GenerateContentAsStreaming(prompt, flag)
    \/ \E resp \in LongFirstReturns : S_FirstResponse(resp)
    \/ S_ToolUsage
    \/ S_ExecuteTool
    \/ \E ret \in LongCallToolReturns : S_ToolResult(ret)
    \/ S_FinalCall
    \/ \E resp \in FinalReturns : S_FinalResponse(resp)
    \/ S_Close
    \/ Receive

SpecTruncation == Init /\ [][NextTruncation]_vars

(***************************************************************************)
(* Turns whose request context is cancelled while a provider call is in    *)
(* progress.  The loop itself never looks at ctx: it passes it on, and the *)
(* provider call in progress returns the cancellation as its error.        *)
(***************************************************************************)
\* the caller cancels ctx while CallTool is in progress
Cancel ==
    /\ pc \in {"b_calltool", "s_calltool"}
    /\ ~ctxDone
    /\ ctxDone' = TRUE
    /\ UNCHANGED << agentVars, chanVars, pc, mode, addNotFinalResponses, msgs, toolCalls, idx,
                    response, llmLog, llmRets, execLog, execRes, callLog, callRets, outcome >>

\* what CallTool may return: under a cancelled ctx, only an error
CallToolReturnsUnderCtx ==
    IF ctxDone THEN {ret \in CallToolReturns : ret.failed} ELSE CallToolReturns

\* the steps of a turn: of the task, of the LLM, of the providers and of the consumer
CancelTurn ==
    \/ \E prompt \in Prompts, flag \in BOOLEAN : GenerateContent(prompt, flag)
    \/ \E resp \in LongFirstReturns : B_FirstResponse(resp)
    \/ B_ExecuteTool
    \/ \E ret \in CallToolReturnsUnderCtx : B_ToolResult(ret)
    \/ B_FinalCall
    \/ \E resp \in FinalReturns : B_FinalResponse(resp)
    \/ \E prompt \in Prompts, flag \in BOOLEAN : GenerateContentAsStreaming(prompt, flag)
    \/ \E chunk \in {"Hi"} : S_FirstCallback(chunk, MaxChunks)
    \/ \E resp \in LongFirstReturns : S_FirstResponse(resp)
    \/ S_ToolUsage
    \/ S_ExecuteTool
    \/ \E ret \in CallToolReturnsUnderCtx : S_ToolResult(ret)
    \/ S_FinalCall
    \/ \E chunk \in {"Hi"} : S_FinalCallback(chunk, MaxChunks)
    \/ \E resp \in FinalReturns : S_FinalResponse(resp)
    \/ S_Close
    \/ Receive

NextCancel == CancelTurn \/ Cancel

\* the provider call in progress returns
ProviderReturns ==
    \E ret \in CallToolReturnsUnderCtx : B_ToolResult(ret) \/ S_ToolResult(ret)

\* the provider call returns, the consumer receives until the close, and the task,
\* when it returns, runs its deferred close
SpecCancel ==
    /\ Init /\ [][NextCancel]_vars
    /\ WF_vars(ProviderReturns) /\ WF_vars(Receive) /\ WF_vars(S_Close)

(***************************************************************************)
(* What the properties below speak of.                                     *)
(***************************************************************************)
InTurn == mode \in {"blocking", "streaming"}

\* the first LLM call has returned a response
FirstOk == Len(llmRets) >= 1 /\ ~llmRets[1].failed

\* the tool calls the first response requested, as ExecuteTool is to see them
Requests ==
    [i \in DOMAIN llmRets[1].ToolCalls |->
        [Name |-> llmRets[1].ToolCalls[i].Name,
         Arguments |-> llmRets[1].ToolCalls[i].Arguments]]

\* an LLM call returned an error, or ExecuteTool returned one
ErrorReturned ==
    \/ \E i \in DOMAIN llmRets : llmRets[i].failed
    \/ \E i \in DOMAIN execRes : execRes[i].kind = "error"

\* no call of the turn failed in any way
NoCallFails ==
    /\ ~ErrorReturned
    /\ \A i \in DOMAIN execRes : execRes[i].kind = "ok"
    /\ outcome.kind # "panic"

\* an LLM call or a tool invocation has been started and has not returned
Outstanding == Len(llmRets) < Len(llmLog) \/ Len(execRes) < Len(execLog)

\* everything sent on streamingChan so far, in order (the last may be undelivered)
Sent == received \o streamingChan

(***************************************************************************)
(* C1: in blocking mode, when the first LLM response has no tool calls,    *)
(* the finished turn has made exactly one LLM call and no tool invocation  *)
(* and returns that response's content unchanged, with markers on or off.  *)
(***************************************************************************)
C1_NoToolCallsOneLLMCall ==
    (mode = "blocking" /\ FirstOk /\ Len(llmRets[1].ToolCalls) = 0) =>
        /\ pc = "done"
        /\ Len(llmLog) = 1
        /\ execLog = <<>> /\ callLog = <<>>
        /\ outcome = Returned(llmRets[1].Content)

C1_Witness ==
    /\ mode = "blocking" /\ addNotFinalResponses /\ pc = "done"
    /\ FirstOk /\ llmRets[1].ToolCalls = <<>> /\ llmRets[1].Content = "Hi"
    /\ outcome.text = "Hi"

(***************************************************************************)
(* C2: when the first LLM response has N >= 1 tool calls, the tool         *)
(* invocations are at every moment a prefix of the requests (each at most  *)
(* once, in request order), the second LLM call is issued only after all N *)
(* have succeeded, and a turn that ends without a failed call has made     *)
(* exactly N invocations and exactly two LLM calls; in both modes.         *)
(***************************************************************************)
C2_NInvocationsInOrder ==
    (InTurn /\ FirstOk /\ Len(llmRets[1].ToolCalls) >= 1) =>
        LET N == Len(llmRets[1].ToolCalls)
        IN  /\ Len(execLog) <= N
            /\ execLog = SubSeq(Requests, 1, Len(execLog))
            /\ Len(callLog) <= Len(execLog)
            /\ Len(llmLog) <= 2
            /\ Len(llmLog) = 2 =>
                  /\ Len(execRes) = N
                  /\ \A i \in 1..N : execRes[i].kind = "ok"
            /\ (pc = "done" /\ NoCallFails) =>
                  /\ Len(execLog) = N /\ Len(callLog) = N
                  /\ \A i \in 1..N : callLog[i].Name = LocalNameOf(Requests[i].Name)
                  /\ Len(llmLog) = 2 /\ Len(llmRets) = 2

C2_Witness ==
    /\ mode = "streaming" /\ pc = "done" /\ NoCallFails /\ FirstOk
    /\ Len(llmRets[1].ToolCalls) = 2
    /\ Requests[1].Name = "calc__sub" /\ Requests[2].Name = "calc__add"
    /\ Len(execLog) = 2 /\ Len(llmLog) = 2

(***************************************************************************)
(* C3: a turn makes at most two LLM calls and at most one round of tool    *)
(* calls: only requests of the first response are ever executed, and once  *)
(* the final LLM call is issued no tool is invoked any more, also when the *)
(* final response asks for tools.                                          *)
(***************************************************************************)
C3_State ==
    InTurn =>
        /\ Len(llmLog) <= 2
        /\ Len(execLog) <= (IF FirstOk THEN Len(llmRets[1].ToolCalls) ELSE 0)
        /\ FirstOk => execLog = SubSeq(Requests, 1, Len(execLog))
        /\ Len(llmRets) = 2 => ~Outstanding /\ pc \in {"done", "s_return"}

C3_Step ==
    Len(llmLog) = 2 => /\ execLog' = execLog /\ callLog' = callLog
                       /\ Len(llmLog') = 2

C3_AtMostOneRound == [](C3_State) /\ [][C3_Step]_vars

C3_Witness ==
    /\ mode = "blocking" /\ pc = "done" /\ Len(llmRets) = 2
    /\ Len(llmRets[2].ToolCalls) = 1 /\ outcome.kind = "returned"
    /\ Len(execLog) = 1

(***************************************************************************)
(* C4: in blocking mode the first error of a turn (a failed LLM call, or   *)
(* an error returned by ExecuteTool) reaches the caller of GenerateContent *)
(* as an error outcome of the call.                                        *)
(***************************************************************************)
C4_ErrorReturnedToCaller ==
    (mode = "blocking" /\ ErrorReturned) => outcome.kind = "error"

(***************************************************************************)
(* C5: in streaming mode, when an LLM call or ExecuteTool returns an       *)
(* error, exactly one error fragment is sent, it carries that error, it is *)
(* the last item of the channel, the channel is closed after it, and from  *)
(* the failure on no LLM call, tool invocation, fragment or marker occurs. *)
(***************************************************************************)
ErrorItems == {i \in DOMAIN Sent : Sent[i].kind = "error"}

\* the text the failure of the turn is reported with
ErrorText ==
    IF llmRets[1].failed THEN "Error generating content: " \o llmRets[1].err
    ELSE IF Len(llmRets) = 2 THEN "Error generating final content: " \o llmRets[2].err
    ELSE "Error executing tool: " \o execRes[Len(execRes)].err

C5_State ==
    mode = "streaming" =>
        /\ Cardinality(ErrorItems) = (IF ErrorReturned THEN 1 ELSE 0)
        /\ \A i \in ErrorItems : i = Len(Sent) /\ Sent[i].text = ErrorText
        /\ closed = 1 /\ ErrorReturned =>
              /\ streamingChan = <<>>
              /\ received[Len(received)].kind = "error"
        /\ pc = "done" => closed = 1

C5_Step ==
    (mode = "streaming" /\ ErrorReturned) =>
        /\ UNCHANGED << llmLog, llmRets, execLog, execRes, callLog, cbLog, msgs >>
        /\ Len(streamingChan') <= Len(streamingChan)

FinalCompleted ==
    /\ Len(llmRets) = Len(llmLog)
    /\ ~llmRets[Len(llmRets)].failed
    /\ Len(llmRets) = 2 \/ llmRets[1].ToolCalls = <<>>

C6_State ==
    mode = "streaming" =>
        /\ closed \in {0, 1}
        /\ pc = "done" <=> closed = 1
        /\ closed = 1 =>
              /\ ~Outstanding
              /\ streamingChan = <<>>
              /\ FinalCompleted \/ ErrorReturned \/ outcome.kind = "panic"

C6_Step == closed = 1 => closed' = 1

C6_ClosedExactlyOnce == [](C6_State) /\ [][C6_Step]_vars

C6_Witness ==
    /\ mode = "streaming" /\ closed = 1 /\ pc = "done"
    /\ Len(llmRets) = 2 /\ ~llmRets[2].failed /\ Len(execRes) = 2
    /\ \E i \in DOMAIN received : received[i].kind = "final_chunk"

(***************************************************************************)
(* C7 and C8 state the classifier from its description: a fragment is      *)
(* tool-call payload when it parses as a JSON array with at least one      *)
(* element, or as a JSON object whose "choices" is a list whose first      *)
(* element is an object with a non-empty "tool_calls" list.                *)
(***************************************************************************)
IsList(v) == v.t = "arr"
Member(obj, key) == MapIndex(obj.fields, key)

ToolCallPayload(fragment) ==
    LET p == ParseJSON(fragment)
    IN  /\ p.ok
        /\ \/ IsList(p.v) /\ Len(p.v.items) >= 1
           \/ /\ p.v.t = "obj"
              /\ IsList(Member(p.v, "choices"))
              /\ Len(Member(p.v, "choices").items) >= 1
              /\ Member(p.v, "choices").items[1].t = "obj"
              /\ IsList(Member(Member(p.v, "choices").items[1], "tool_calls"))
              /\ Len(Member(Member(p.v, "choices").items[1], "tool_calls").items) >= 1

TextFragment(fragment) == ~ToolCallPayload(fragment)

(***************************************************************************)
(* C7: in streaming mode no fragment of the first or of the final LLM call *)
(* that is tool-call payload is delivered on the text channel.             *)
(***************************************************************************)
C7_NoPayloadDelivered ==
    \A i \in DOMAIN received :
        received[i].kind \in {"first_chunk", "final_chunk"} =>
            ~ToolCallPayload(received[i].text)

(***************************************************************************)
(* C8: of the fragments handed to the first callback, exactly those that   *)
(* are not tool-call payload are sent on the text channel, each once,      *)
(* unchanged and in order.                                                 *)
(***************************************************************************)
FragmentsOf(call) ==
    LET mine == SelectSeq(cbLog, LAMBDA e : e.call = call)
    IN  [i \in DOMAIN mine |-> mine[i].chunk]

SentOf(kind) ==
    LET mine == SelectSeq(Sent, LAMBDA e : e.kind = kind)
    IN  [i \in DOMAIN mine |-> mine[i].text]

C8_SuppressedIffPayload ==
    mode = "streaming" => SentOf("first_chunk") = SelectSeq(FragmentsOf(1), TextFragment)

C8_Witness ==
    /\ Len(cbLog) = 2
    /\ cbLog[1].chunk = "{\"choices\":[{\"content\":\"Hi\",\"tool_calls\":[1]}]}"
    /\ cbLog[2].chunk = "{\"choices\":[{\"tool_calls\":[]}]}"
    /\ Len(received) = 1
    /\ received[1].text = "{\"choices\":[{\"tool_calls\":[]}]}"

(***************************************************************************)
(* What C9 and C10 speak of: one ExecuteTool(toolName, argumentsInJSON).   *)
(***************************************************************************)
Called == mode = "tool" /\ Len(execLog) = 1

\* the argument text is one syntactically valid JSON value
ValidJSON(text) == ParseJSON(text).ok

NoArguments(text) == text = "" \/ text = "{}"

\* the positions (1-based) at which the separator occurs in the name
SeparatorAt(name) == {i \in 1..(Len(name) - 1) : SubSeq(name, i, i + 1) = "__"}

Namespaced(name) == SeparatorAt(name) # {}

\* the part of a namespaced name before its first separator
ProviderPart(name) ==
    LET first == CHOOSE i \in SeparatorAt(name) : \A j \in SeparatorAt(name) : i <= j
    IN  SubSeq(name, 1, first - 1)

Registered == {mcpServers[i].Name : i \in DOMAIN mcpServers}

(***************************************************************************)
(* C9: ExecuteTool treats the empty argument text and the text {} as no    *)
(* arguments (never an invalid-arguments error, and nil is what a provider *)
(* is sent); any other text that is not valid JSON ends the call with the  *)
(* invalid-arguments error and no CallTool, whatever the tool name; valid  *)
(* JSON is sent to the provider as it is.                                  *)
(***************************************************************************)
C9_ArgumentValidation ==
    Called =>
        LET a == execLog[1].Arguments
        IN  /\ NoArguments(a) =>
                  /\ outcome.err # ErrInvalidArguments
                  /\ callLog # <<>> => callLog[1].Arguments.nil
            /\ (~NoArguments(a) /\ ~ValidJSON(a)) =>
                  /\ outcome = Failed(ErrInvalidArguments)
                  /\ callLog = <<>>
                  /\ pc = "done"
            /\ (~NoArguments(a) /\ ValidJSON(a)) =>
                  /\ outcome.err # ErrInvalidArguments
                  /\ callLog # <<>> => callLog[1].Arguments = [nil |-> FALSE, raw |-> a]

C9_Witness ==
    /\ Called /\ pc = "done"
    /\ execLog[1] = [Name |-> "add", Arguments |-> "{\"a\":2,}"]
    /\ outcome = Failed(ErrInvalidArguments)
    /\ callLog = <<>>

(***************************************************************************)
(* C10 as claimed: for a namespaced tool name whose part before the first  *)
(* separator is no registered provider, ExecuteTool fails with the         *)
(* unknown-provider error and calls no provider.                           *)
(***************************************************************************)
UnknownProvider ==
    /\ Called
    /\ Namespaced(execLog[1].Name)
    /\ ProviderPart(execLog[1].Name) \notin Registered

C10_UnknownProviderError ==
    UnknownProvider => outcome = Failed(ErrNotFound) /\ callLog = <<>>

(***************************************************************************)
(* C10 as amended: for such a name ExecuteTool fails and calls no          *)
(* provider; the error is the unknown-provider error when the arguments    *)
(* pass validation, and the invalid-arguments error when they do not.      *)
(***************************************************************************)
C10_UnknownProviderFails ==
    UnknownProvider =>
        /\ callLog = <<>>
        /\ pc = "done"
        /\ outcome = IF NoArguments(execLog[1].Arguments) \/ ValidJSON(execLog[1].Arguments)
                     THEN Failed(ErrNotFound)
                     ELSE Failed(ErrInvalidArguments)

C10_Witness ==
    /\ UnknownProvider
    /\ execLog[1] = [Name |-> "files__read", Arguments |-> "{\"a\":2,\"b\":2}"]
    /\ outcome = Failed(ErrNotFound)
    /\ callLog = <<>>

(***************************************************************************)
(* C11: when ExecuteTool is given a name P__T the agent advertises for the *)
(* tool T (a name without the separator) of its provider P, the one        *)
(* CallTool it issues goes to provider P and names the tool T.             *)
(***************************************************************************)
C11_RoundTrip ==
    Called =>
        \A P \in DOMAIN MCPServerTools :
            \A i \in DOMAIN MCPServerTools[P] :
                LET T == MCPServerTools[P][i]
                IN  (~Namespaced(T) /\ execLog[1].Name = P \o "__" \o T) =>
                        /\ Len(callLog) = 1
                        /\ callLog[1].server = P
                        /\ callLog[1].Name = T

(***************************************************************************)
(* C12: in a turn, ExecuteTool returns an error after its CallTool exactly *)
(* when CallTool itself failed. A result by which the provider reports the *)
(* tool's own failure is returned as the serialized result with no error:  *)
(* it becomes the content of the Tool message of that call, the turn goes  *)
(* on, and a turn in which no invocation returned an error makes the final *)
(* LLM call on a conversation holding that message.                        *)
(***************************************************************************)
\* the provider's i-th CallTool returned a result that reports the tool's failure
AppError(i) == i \in DOMAIN callRets /\ ~callRets[i].failed /\ callRets[i].result.isError

\* a later invocation did not return a result, or the final LLM call has returned
FailedAfter(i) ==
    \/ \E j \in (i + 1)..Len(execRes) : execRes[j].kind # "ok"
    \/ Len(llmRets) = 2

FullResult(i) == MarshalString(callRets[i].result)

Shown(full) ==
    IF Len(full) > 1000 THEN SubSeq(full, 1, 1000) \o "..." ELSE full

ResponseMarker(i) ==
    "\n[tool_response] " \o toolCalls[i].Name \o ": " \o Shown(FullResult(i)) \o "]\n\n"

RECURSIVE Progress(_)
\* the markers a blocking turn writes for its first k tool calls
Progress(k) ==
    IF k = 0 THEN ""
    ELSE Progress(k - 1) \o "\n[tool_usage] " \o toolCalls[k].Name \o "\n"
                         \o ResponseMarker(k)

\* the provider calls of the turn that returned a result
Results == {i \in DOMAIN callRets : execRes[i].kind = "ok"}

Markers == {"tool_usage", "tool_response"}

\* the phase of the turn an item of the channel belongs to
PhaseOf(kind) ==
    IF kind = "first_chunk" THEN 1 ELSE IF kind \in Markers THEN 2 ELSE 3

\* the kinds of the markers sent, in order
MarkerKinds ==
    LET mine == SelectSeq(Sent, LAMBDA e : e.kind \in Markers)
    IN  [i \in DOMAIN mine |-> mine[i].kind]

\* the usage markers the consumer has received, in order
UsageReceived ==
    LET mine == SelectSeq(received, LAMBDA e : e.kind = "tool_usage")
    IN  [i \in DOMAIN mine |-> mine[i].text]

C14_MarkersBetweenPhases ==
    /\ mode = "streaming" =>
          /\ \A i, j \in DOMAIN Sent : i < j => PhaseOf(Sent[i].kind) <= PhaseOf(Sent[j].kind)
          /\ \A i \in DOMAIN MarkerKinds :
                MarkerKinds[i] = IF i % 2 = 1 THEN "tool_usage" ELSE "tool_response"
          /\ ~addNotFinalResponses => MarkerKinds = <<>>
          /\ addNotFinalResponses =>
                /\ Len(execLog) <= Len(UsageReceived)
                /\ \A i \in DOMAIN execLog :
                      UsageReceived[i] = "\n[tool_usage] " \o execLog[i].Name \o "\n"
                /\ Len(SentOf("tool_response")) = Cardinality(Results)
                /\ Len(msgs) >= 1 + 2 * Len(SentOf("tool_response"))
    /\ (mode = "blocking" /\ ~addNotFinalResponses /\ outcome.kind = "returned") =>
          outcome.text = llmRets[Len(llmRets)].Content

C14_Witness ==
    /\ mode = "streaming" /\ addNotFinalResponses /\ pc = "done"
    /\ [i \in DOMAIN received |-> received[i].kind] =
          << "first_chunk", "tool_usage", "tool_response", "tool_usage", "tool_response",
             "final_chunk" >>
    /\ received[2].text = "\n[tool_usage] calc__sub\n"
    /\ received[4].text = "\n[tool_usage] calc__add\n"

(***************************************************************************)
(* What C15 and C16 speak of: the agent NewMCPAgent has returned.          *)
(***************************************************************************)
Built == pc # "new"

\* the live providers a reference names
LiveFor(ref) == {k \in DOMAIN agentMCPServers : agentMCPServers[k].Name = ref.Name}

\* the reference names a live provider whose tool listing succeeds
Listed(ref) == \E k \in LiveFor(ref) : agentMCPServers[k].ListOk

\* the tools of the provider's listing a reference admits, in listing order
Admitted(ref) ==
    LET k == CHOOSE k \in LiveFor(ref) : TRUE
        allow == {ref.AllowedTools[i] : i \in DOMAIN ref.AllowedTools}
    IN  IF ~Listed(ref) THEN <<>>
        ELSE SelectSeq(agentMCPServers[k].Tools, LAMBDA t : allow = {} \/ t \in allow)

RECURSIVE AdmittedUnder(_, _)
\* what the references of the name n admit, one reference after the other
AdmittedUnder(n, refs) ==
    IF refs = <<>> THEN <<>>
    ELSE (IF Head(refs).Name = n THEN Admitted(Head(refs)) ELSE <<>>)
             \o AdmittedUnder(n, Tail(refs))

(***************************************************************************)
(* C15: the catalog holds, under each provider name, exactly the tools of  *)
(* that provider's listing that each reference to it admits (those named   *)
(* in the reference's allow-list, or all of them when the allow-list is    *)
(* empty), reference after reference; nothing else is in the catalog.      *)
(***************************************************************************)
C15_AllowList ==
    Built =>
        /\ \A i \in DOMAIN MCPServerNames :
              LET n == MCPServerNames[i].Name
              IN  (IF n \in DOMAIN MCPServerTools THEN MCPServerTools[n] ELSE <<>>)
                      = AdmittedUnder(n, MCPServerNames)
        /\ \A n \in DOMAIN MCPServerTools :
              /\ \E i \in DOMAIN MCPServerNames : MCPServerNames[i].Name = n
              /\ \A j \in DOMAIN MCPServerTools[n] :
                    \E k \in DOMAIN agentMCPServers :
                        /\ agentMCPServers[k].Name = n
                        /\ \E t \in DOMAIN agentMCPServers[k].Tools :
                              agentMCPServers[k].Tools[t] = MCPServerTools[n][j]

C15_Witness ==
    /\ Built
    /\ agentMCPServers = LiveServers
    /\ MCPServerNames = << [Name |-> "calc", AllowedTools |-> <<"add", "nope">>],
                           [Name |-> "calc", AllowedTools |-> <<>>] >>
    /\ MCPServerTools = [n \in {"calc"} |-> <<"add", "add", "sub">>]

(***************************************************************************)
(* C16: NewMCPAgent returns an agent for every configuration and every     *)
(* list of live providers. One ListTools query was sent for each reference *)
(* that names a live provider, in reference order, and each such provider  *)
(* can be routed to; a reference whose provider is missing or whose query  *)
(* failed leaves no catalog entry, and every other reference still has the *)
(* tools it admits in the catalog.                                         *)
(***************************************************************************)
\* the names of the references that name a live provider, in reference order
FoundNames ==
    LET found == SelectSeq(MCPServerNames, LAMBDA ref : LiveFor(ref) # {})
    IN  [i \in DOMAIN found |-> found[i].Name]

C16_ConstructionNeverFails ==
    /\ pc = "new" =>
          \A refs \in SeqsUpTo(CatalogRefs, MaxRefs), live \in CatalogServers :
              ENABLED NewAgent(refs, live)
    /\ Built =>
          /\ listLog = FoundNames
          /\ [i \in DOMAIN mcpServers |-> mcpServers[i].Name] = FoundNames
          /\ \A i \in DOMAIN MCPServerNames :
                LET ref == MCPServerNames[i]
                IN  IF Listed(ref)
                    THEN /\ ref.Name \in DOMAIN MCPServerTools
                         /\ \A t \in DOMAIN Admitted(ref) :
                               \E j \in DOMAIN MCPServerTools[ref.Name] :
                                   MCPServerTools[ref.Name][j] = Admitted(ref)[t]
                    ELSE ref.Name \notin DOMAIN MCPServerTools

C16_Witness ==
    /\ Built
    /\ agentMCPServers = LiveServers
    /\ MCPServerNames = << [Name |-> "files", AllowedTools |-> <<>>],
                           [Name |-> "calc", AllowedTools |-> <<>>] >>
    /\ Len(mcpServers) = 2
    /\ listLog = <<"files", "calc">>
    /\ MCPServerTools = [n \in {"calc"} |-> <<"add", "sub">>]

(***************************************************************************)
(* C17: once ctx is cancelled during a provider call, the turn starts no   *)
(* tool invocation and no LLM call any more and appends nothing to the     *)
(* conversation; it never returns an answer and sends no fragment of a     *)
(* final answer; it comes to its end, and a streaming turn ends with the   *)
(* text channel closed.                                                    *)
(***************************************************************************)
C17_State ==
    ctxDone =>
        /\ mode = "blocking" => outcome.kind # "returned"
        /\ Len(llmLog) = 1
        /\ SentOf("final_chunk") = <<>>
        /\ (pc = "done" /\ mode = "streaming") => closed = 1

C17_Step ==
    ctxDone => /\ execLog' = execLog
               /\ callLog' = callLog
               /\ llmLog' = llmLog
               /\ msgs' = msgs

C18_ConversationReturned ==
    /\ (mode = "blocking" /\ outcome.kind = "returned") =>
          /\ "msgs" \in DOMAIN outcome
          /\ outcome.msgs = msgs
    /\ (mode = "streaming" /\ pc = "done" /\ outcome.kind = "returned") =>
          \A i \in 2..Len(msgs) :
              \E j \in DOMAIN received :
                  /\ received[j].kind = "message"
                  /\ received[j].msg = msgs[i]

(***************************************************************************)
(* C19: the conversation of a turn is the initial conversation followed,   *)
(* for each tool call that returned a result, in request order, by an AI   *)
(* message carrying the request and then a Tool message with the request's *)
(* id and the call's result, and by nothing else; when the final LLM call  *)
(* is made all N calls have returned and it is given exactly this          *)
(* conversation of 2N appended messages.                                   *)
(***************************************************************************)
\* the AI message and the Tool message of the i-th request
RequestMessage(i) ==
    [Role |-> "ai", Part |-> [type |-> "ToolCall",
                              ID |-> llmRets[1].ToolCalls[i].ID,
                              Name |-> llmRets[1].ToolCalls[i].Name,
                              Arguments |-> llmRets[1].ToolCalls[i].Arguments]]

ResultMessage(i) ==
    [Role |-> "tool", Part |-> [type |-> "ToolCallResponse",
                                ToolCallID |-> llmRets[1].ToolCalls[i].ID,
                                Content |-> execRes[i].text]]

\* how many invocations of the turn have returned a result
Executed == Cardinality({i \in DOMAIN execRes : execRes[i].kind = "ok"})

C19_TwoMessagesPerCall ==
    InTurn =>
        /\ Len(msgs) = 1 + 2 * Executed
        /\ msgs[1] = llmLog[1].msgs[1] /\ Len(llmLog[1].msgs) = 1
        /\ \A i \in 1..Executed :
              /\ execRes[i].kind = "ok"
              /\ msgs[2 * i] = RequestMessage(i)
              /\ msgs[2 * i + 1] = ResultMessage(i)
        /\ Len(llmLog) = 2 =>
              /\ Executed = Len(llmRets[1].ToolCalls)
              /\ llmLog[2].msgs = msgs

C19_Witness ==
    /\ mode = "blocking" /\ pc = "done" /\ outcome.kind = "returned"
    /\ Len(llmLog) = 2 /\ Len(llmLog[2].msgs) = 5
    /\ llmLog[2].msgs[2].Part.Name = "calc__sub" /\ llmLog[2].msgs[2].Part.ID = "call_1"
    /\ llmLog[2].msgs[3].Part.ToolCallID = "call_1"
    /\ llmLog[2].msgs[4].Part.Name = "calc__add" /\ llmLog[2].msgs[4].Part.ID = "call_2"
    /\ llmLog[2].msgs[5].Part.ToolCallID = "call_2"

(***************************************************************************)
(* C20: in a turn, when the first LLM call fails no tool is invoked and no *)
(* further LLM call is made; when the k-th tool invocation does not return *)
(* a result it is the last invocation, the conversation holds the messages *)
(* of the k-1 calls before it only, and the final LLM call is not made;    *)
(* the invocations made are the requests of the first response, each once  *)
(* and in order, and there are at most two LLM calls.                      *)
(***************************************************************************)
C20_AbortNoRetry ==
    InTurn =>
        /\ (Len(llmRets) >= 1 /\ llmRets[1].failed) =>
              /\ execLog = <<>> /\ callLog = <<>>
              /\ Len(llmLog) = 1
        /\ \A k \in DOMAIN execRes :
              execRes[k].kind # "ok" =>
                  /\ Len(execLog) = k
                  /\ Len(msgs) = 1 + 2 * (k - 1)
                  /\ Len(llmLog) = 1
        /\ Len(llmLog) <= 2
        /\ Len(llmRets) <= Len(llmLog)
        /\ FirstOk =>
              /\ Len(execLog) <= Len(Requests)
              /\ \A i \in DOMAIN execLog : execLog[i] = Requests[i]
        /\ Len(callLog) <= Len(execLog)

C20_Witness ==
    /\ mode = "blocking" /\ pc = "done" /\ outcome.kind = "panic"
    /\ Len(toolCalls) = 2
    /\ Len(execLog) = 1 /\ Len(callLog) = 1
    /\ execRes = <<ToolResult("error", ErrCallFailed, "")>>
    /\ Len(msgs) = 1 /\ Len(llmLog) = 1

(***************************************************************************)
(* C21: every step leaves the conversation as it was or adds messages at   *)
(* its end: the conversation before the step is a prefix of the            *)
(* conversation after it.                                                  *)
(***************************************************************************)
C21_Step ==
    /\ Len(msgs') >= Len(msgs)
    /\ SubSeq(msgs', 1, Len(msgs)) = msgs

C21_AppendOnly == [][C21_Step]_vars

C21_Witness ==
    /\ mode = "streaming" /\ pc = "s_loop"
    /\ Len(msgs) = 5
    /\ msgs[1].Role = "human" /\ msgs[2].Role = "ai" /\ msgs[3].Role = "tool"
    /\ msgs[4].Role = "ai" /\ msgs[5].Role = "tool"
    /\ msgs[3].Part.Content # msgs[5].Part.Content

(***************************************************************************)
(* C22: in a turn at most one LLM call or tool invocation is outstanding   *)
(* at any moment; a tool is invoked only when the first LLM call has       *)
(* returned, the invocation before it has returned a result and the two    *)
(* messages of that call are in the conversation; the final LLM call is    *)
(* made only when every requested invocation has returned.                 *)
(***************************************************************************)
\* the calls started and not yet returned
OutstandingCalls == (Len(llmLog) - Len(llmRets)) + (Len(execLog) - Len(execRes))

C22_Sequential ==
    InTurn =>
        /\ Len(llmRets) <= Len(llmLog) /\ Len(execRes) <= Len(execLog)
        /\ OutstandingCalls <= 1
        /\ execLog # <<>> => Len(llmRets) >= 1
        /\ \A i \in DOMAIN execLog :
              i > 1 => /\ Len(execRes) >= i - 1
                       /\ execRes[i - 1].kind = "ok"
                       /\ Len(msgs) >= 1 + 2 * (i - 1)
                       /\ msgs[2 * (i - 1) + 1].Part.ToolCallID = toolCalls[i - 1].ID
        /\ Len(llmLog) = 2 =>
              /\ Len(execLog) = Len(llmRets[1].ToolCalls)
              /\ Len(execRes) = Len(execLog)

C22_Witness ==
    /\ mode = "blocking" /\ pc = "b_calltool"
    /\ Len(execLog) = 2 /\ Len(execRes) = 1 /\ Len(msgs) = 3
    /\ OutstandingCalls = 1

(***************************************************************************)
(* C23: at most one item sent on the text channel is undelivered, and      *)
(* while one is, the only step of the turn is the consumer receiving it:   *)
(* the task does not move on, no callback runs, no LLM call and no tool    *)
(* invocation starts or returns, and the channel is not closed.            *)
(***************************************************************************)
C23_State == mode = "streaming" => Len(streamingChan) <= 1

C23_Step ==
    streamingChan # <<>> =>
        /\ received' = Append(received, streamingChan[1])
        /\ streamingChan' = Tail(streamingChan)
        /\ UNCHANGED << pc, idx, msgs, cbLog, llmLog, llmRets, execLog, execRes, callLog,
                        closed >>

C23_Backpressure == [](C23_State) /\ [][C23_Step]_vars

C23_Witness ==
    /\ mode = "streaming" /\ pc = "s_exec"
    /\ Len(streamingChan) = 1 /\ streamingChan[1].kind = "tool_usage"
    /\ Len(execLog) = 1 /\ Len(execRes) = 1 /\ idx = 2

(***************************************************************************)
(* One agent asked the same question twice: first with GenerateContent,    *)
(* then, when that has returned, with GenerateContentAsStreaming, the LLM  *)
(* and the providers answering the second turn exactly as they answered    *)
(* the first.  The logs of the first turn stay, those of the second are    *)
(* appended to them.                                                       *)
(***************************************************************************)
\* GenerateContent has returned to its caller: the agent is idle again
TurnOver ==
    /\ pc = "done" /\ mode = "blocking" /\ outcome.kind = "returned"
    /\ pc' = "idle"
    /\ UNCHANGED << agentVars, ctxDone, chanVars, mode, addNotFinalResponses, msgs, toolCalls,
                    idx, response, llmLog, llmRets, execLog, execRes, callLog, callRets,
                    outcome >>

\* the fragments the final LLM call streams: its answer, or a tool-call delta
FinalChunks == {"The answer is 4.", "[\"tool_call_delta\"]"}

\* the LLM calls and the tool invocations of the first (blocking) turn
FirstTurnLLMCalls == IF llmRets[1].ToolCalls = <<>> THEN 1 ELSE 2
FirstTurnTools == Len(llmRets[1].ToolCalls)

NextBothModes ==
    \/ \E prompt \in Prompts, flag \in BOOLEAN :
          mode = "none" /\ GenerateContent(prompt, flag)
    \/ \E resp \in FirstReturns : B_FirstResponse(resp)
    \/ B_ExecuteTool
    \/ \E ret \in CallToolReturns : B_ToolResult(ret)
    \/ B_FinalCall
    \/ \E resp \in FinalReturns : B_FinalResponse(resp)
    \/ TurnOver
    \/ /\ mode = "blocking"
       /\ GenerateContentAsStreaming(llmLog[1].msgs[1].Part.Text, addNotFinalResponses)
    \/ \E chunk \in Chunks : S_FirstCallback(chunk, MaxChunks)
    \/ pc = "s_llm1" /\ S_FirstResponse(llmRets[1])
    \/ S_ToolUsage
    \/ S_ExecuteTool
    \/ pc = "s_calltool" /\ S_ToolResult(callRets[Len(callRets) - FirstTurnTools + 1])
    \/ S_FinalCall
    \/ \E chunk \in FinalChunks : S_FinalCallback(chunk, MaxChunks)
    \/ pc = "s_llm2" /\ S_FinalResponse(llmRets[2])
    \/ S_Close
    \/ Receive

SpecBothModes == Init /\ [][NextBothModes]_vars

(***************************************************************************)
(* C24: answered alike, the streaming turn makes the LLM calls and the     *)
(* tool invocations the blocking turn made: every LLM call of the second   *)
(* turn has the conversation and the tool list of the same call of the     *)
(* first, every ExecuteTool and every CallTool of the second turn has the  *)
(* arguments of the same one of the first, and when the second turn is     *)
(* over it has made as many of each as the first.                          *)
(***************************************************************************)
SecondTurn == mode = "streaming"

C24_SameStateMachine ==
    SecondTurn =>
        /\ \A i \in DOMAIN llmLog : i > FirstTurnLLMCalls =>
              /\ i - FirstTurnLLMCalls <= FirstTurnLLMCalls
              /\ llmLog[i].msgs = llmLog[i - FirstTurnLLMCalls].msgs
              /\ llmLog[i].tools = llmLog[i - FirstTurnLLMCalls].tools
        /\ \A i \in DOMAIN execLog : i > FirstTurnTools =>
              /\ i - FirstTurnTools <= FirstTurnTools
              /\ execLog[i] = execLog[i - FirstTurnTools]
        /\ \A i \in DOMAIN callLog : i > FirstTurnTools =>
              /\ i - FirstTurnTools <= FirstTurnTools
              /\ callLog[i] = callLog[i - FirstTurnTools]
        /\ pc = "done" =>
              /\ Len(llmLog) = 2 * FirstTurnLLMCalls
              /\ Len(execLog) = 2 * FirstTurnTools
              /\ Len(callLog) = 2 * FirstTurnTools

C24_Witness ==
    /\ SecondTurn /\ pc = "done" /\ closed = 1
    /\ FirstTurnTools = 2
    /\ Len(llmLog) = 4 /\ Len(execLog) = 4 /\ Len(callLog) = 4
    /\ Len(llmLog[4].msgs) = 5 /\ llmLog[4].msgs = llmLog[2].msgs
    /\ llmLog[4].streaming /\ ~llmLog[2].streaming
    /\ callRets[1].result.isError

(***************************************************************************)
(* C25: a provider referenced more than once accumulates. For every        *)
(* provider name and every tool, the catalog entry of the name holds the   *)
(* tool as many times as the references to that name retain it, taken      *)
(* together: what an earlier reference retained is still there after a     *)
(* later one.                                                              *)
(***************************************************************************)
\* how often the catalog entry of the provider n holds the tool t
Held(n, t) ==
    IF n \in DOMAIN MCPServerTools
    THEN Cardinality({j \in DOMAIN MCPServerTools[n] : MCPServerTools[n][j] = t})
    ELSE 0

\* how often the references to the provider n retain the tool t
Retained(n, t) ==
    Cardinality(UNION { { <<i, j>> : j \in {j \in DOMAIN Admitted(MCPServerNames[i]) :
                                                Admitted(MCPServerNames[i])[j] = t} } :
                        i \in {i \in DOMAIN MCPServerNames : MCPServerNames[i].Name = n} })

C25_Accumulates ==
    Built =>
        \A i \in DOMAIN MCPServerNames :
            LET n == MCPServerNames[i].Name
            IN  \A k \in LiveFor(MCPServerNames[i]) :
                    \A j \in DOMAIN agentMCPServers[k].Tools :
                        LET t == agentMCPServers[k].Tools[j]
                        IN  Held(n, t) = Retained(n, t)

C25_Witness ==
    /\ Built
    /\ agentMCPServers = LiveServers
    /\ MCPServerNames = << [Name |-> "calc", AllowedTools |-> <<>>],
                           [Name |-> "calc", AllowedTools |-> <<"add", "nope">>] >>
    /\ MCPServerTools = [n \in {"calc"} |-> <<"add", "sub", "add">>]

(***************************************************************************)
(* C26: once NewMCPAgent has returned the agent, no step of a turn writes  *)
(* the Tool Catalog or the provider registry: GenerateContent,             *)
(* GenerateContentAsStreaming, the ExecuteTool calls they make and the     *)
(* ExtractToolsFromAgent of each LLM call leave both as they were, in a    *)
(* first turn and in the turn after it.                                    *)
(***************************************************************************)
C26_Step == UNCHANGED << mcpServers, MCPServerTools >>

C26_WrittenOnlyByNewMCPAgent == [][C26_Step]_vars

C26_Witness ==
    /\ SecondTurn /\ pc = "done"
    /\ Len(llmLog) = 4 /\ Len(callLog) = 2
    /\ llmLog[4].tools = ExtractToolsFromAgent(MCPServerTools)
    /\ MCPServerTools = [n \in {"calc"} |-> <<"add">>]
    /\ [i \in DOMAIN mcpServers |-> mcpServers[i].Name] = <<"calc", "files">>

(***************************************************************************)
(* C27: ExecuteTool is total over tool names. Every invocation ends with a *)
(* result or with an error value, whatever the tool name; and a streaming  *)
(* turn that has invoked a name with no separator in it has not ended in a *)
(* panic of the background task: when it is over, the channel was closed   *)
(* after an error fragment.                                                *)
(***************************************************************************)
NoSeparator(toolName) == Index(toolName, Separator) < 0

C27_ExecuteToolTotal ==
    /\ \A i \in DOMAIN execRes : execRes[i].kind \in {"ok", "error"}
    /\ (/\ mode = "streaming" /\ pc = "done"
        /\ \E i \in DOMAIN execLog : NoSeparator(execLog[i].Name))
           => /\ outcome.kind # "panic"
              /\ closed = 1
              /\ \E j \in DOMAIN Sent : Sent[j].kind = "error"

(***************************************************************************)
(* C28: tool access control holds at execution time. Every CallTool sent   *)
(* in a turn goes to a provider that has an entry in the agent's Tool      *)
(* Catalog, for a local tool that entry holds: a tool outside the agent's  *)
(* allow-list, or one of a provider whose listing failed, is not executed. *)
(***************************************************************************)
InCatalog(server, localName) ==
    /\ server \in DOMAIN MCPServerTools
    /\ \E j \in DOMAIN MCPServerTools[server] : MCPServerTools[server][j] = localName

C28_AccessControlAtExecution ==
    \A i \in DOMAIN callLog : InCatalog(callLog[i].server, callLog[i].Name)

(***************************************************************************)
(* C29: the tool list ExtractToolsFromAgent gives the LLM holds each       *)
(* namespaced name at most once, whatever the configuration the agent was  *)
(* built from.                                                             *)
(***************************************************************************)
C29_AdvertisedOnce ==
    Built =>
        \A name \in Advertised :
            CopiesIn(name, ExtractToolsFromAgent(MCPServerTools)) = 1

(***************************************************************************)
(* C30: nothing is sent on the text channel after it has been closed. Once *)
(* the channel is closed no sender is waiting on it, and from then on no   *)
(* step adds to what has been sent or runs a callback.                     *)
(***************************************************************************)
C30_State == closed > 0 => streamingChan = <<>>

C30_Step == closed > 0 => (Sent' = Sent /\ cbLog' = cbLog)

C30_NoSendAfterClose == [](C30_State) /\ [][C30_Step]_vars

C30_Witness ==
    /\ mode = "streaming" /\ pc = "done" /\ closed = 1 /\ addNotFinalResponses
    /\ [i \in DOMAIN received |-> received[i].kind] =
          << "first_chunk", "tool_usage", "tool_response", "final_chunk" >>
    /\ Len(cbLog) = 2
    /\ streamingChan = <<>>

(***************************************************************************)
(* Streaming turns whose consumer may stop receiving at any time, or       *)
(* cancel ctx: every LLM call and every provider call returns, and the     *)
(* background task takes every step it can take, while nothing makes the   *)
(* consumer receive.                                                       *)
(***************************************************************************)
\* an LLM call in progress returns
LLMReturns ==
    \/ \E resp \in LongFirstReturns : S_FirstResponse(resp)
    \/ \E resp \in FinalReturns : S_FinalResponse(resp)

\* the steps of the background task between its external calls
TaskSteps == S_ToolUsage \/ S_FinalCall \/ S_Close

\* the task, when it can enter ExecuteTool (S_ExecuteTool), does not wait forever
ExecuteToolStarts == []<>(~(pc = "s_exec" /\ ChanIdle))

SpecAbandoned ==
    /\ Init /\ [][NextCancel]_vars
    /\ WF_vars(LLMReturns) /\ WF_vars(ProviderReturns) /\ WF_vars(TaskSteps)
    /\ ExecuteToolStarts

(***************************************************************************)
(* C31: a streaming turn always terminates. When every LLM call and every  *)
(* provider call returns, the background task of a streaming turn comes to *)
(* close the text channel, whether or not the consumer goes on receiving.  *)
(***************************************************************************)
C31_StreamingTerminates == (mode = "streaming") ~> (closed = 1)

(***************************************************************************)
(* C32: streaming and blocking mode deliver the same visible text. When    *)
(* the streaming turn, answered as the blocking turn was and with the same *)
(* marker setting, is over, and the text fragments the LLM streamed in     *)
(* each call make up the content of that call's response, the items        *)
(* received on the text channel, joined, are the string the blocking turn  *)
(* returned.                                                               *)
(***************************************************************************)
RECURSIVE Joined(_)
Joined(texts) == IF texts = <<>> THEN "" ELSE Head(texts) \o Joined(Tail(texts))

\* the text the LLM streamed in one call of the streaming turn
StreamedText(call) == Joined(SelectSeq(FragmentsOf(call), TextFragment))

\* each call of the streaming turn streamed the content of its response
StreamedItsContent ==
    /\ StreamedText(1) = llmRets[1].Content
    /\ FirstTurnLLMCalls = 2 => StreamedText(2) = llmRets[2].Content

VisibleText == Joined([i \in DOMAIN received |-> received[i].text])

C32_SameVisibleText ==
    (SecondTurn /\ pc = "done" /\ outcome.kind = "returned" /\ StreamedItsContent)
        => VisibleText = response

=============================================================================
